---- MODULE Spec2Model ----
(***************************************************************************)
(* Model of the Red Hat learning-path generator: the content search and    *)
(* curation service (services/redhatContentService.js), the language-model *)
(* client (services/llmService.js), the request schemas                    *)
(* (utils/validation.js) and the two POST routes (routes/learningPath.js). *)
(*                                                                         *)
(* A JavaScript string is modelled as a sequence of one-character strings, *)
(* so that case folding, character classes, substring tests and lengths    *)
(* are computed rather than assumed.                                       *)
(***************************************************************************)
EXTENDS Integers, Sequences, FiniteSets, TLC

VARIABLES
  pc,          \* where the request handler (or the function under study) stands
  req,         \* the request: its route and body
  llmService,  \* whether the module-level LLMService was constructed
  events,      \* what the handler has done so far, in order
  topics,      \* the topics handed to the search
  cat,         \* the three category searches
  sr,          \* the searchResults object
  glp,         \* how generateLearningPath ended
  resp,        \* the response, or the hand-off to the error middleware
  dPc, dIn, dOut, dOut2,  \* deduplicateResults studied as a function
  fPc, fIn, fOut,         \* another function called on its own: which one, its
                          \* arguments, how the call ended
  cPc,         \* two requests in flight at once: where each handler stands
  cLocals,     \* the handlers' local bindings, one scope per call
  cResp,       \* what each handler has sent on its res
  cInstances,  \* the fields of the module-level service instances
  cSent,       \* the body each client sent
  cReplied,    \* the text the model returned to each handler's generate call
  cActor,      \* the handler whose continuation ran last
  cFaults      \* the number of fetches that have failed

requestVars == <<pc, req, llmService, events, topics, cat, sr, glp, resp>>
dedupVars == <<dPc, dIn, dOut, dOut2>>
fnVars == <<fPc, fIn, fOut>>
concVars == <<cPc, cLocals, cResp, cInstances, cSent, cReplied, cActor, cFaults>>
vars ==
  <<pc, req, llmService, events, topics, cat, sr, glp, resp, dPc, dIn, dOut, dOut2,
    fPc, fIn, fOut, cPc, cLocals, cResp, cInstances, cSent, cReplied, cActor, cFaults>>

\* ------------------------------------------------------------------------
\* Strings
\* ------------------------------------------------------------------------
LowerLetters == <<"a","b","c","d","e","f","g","h","i","j","k","l","m","n","o","p","q","r","s","t","u","v","w","x","y","z">>
UpperLetters == <<"A","B","C","D","E","F","G","H","I","J","K","L","M","N","O","P","Q","R","S","T","U","V","W","X","Y","Z">>

LowerSet == {LowerLetters[i] : i \in 1..Len(LowerLetters)}
UpperSet == {UpperLetters[i] : i \in 1..Len(UpperLetters)}
DigitSet == {"0", "1", "2", "3", "4", "5", "6", "7", "8", "9"}
\* JavaScript's \s, restricted to the whitespace the model's inputs use
WhitespaceSet == {" ", "\t", "\n"}
HexSet == DigitSet \cup {"a", "b", "c", "d", "e", "f", "A", "B", "C", "D", "E", "F"}
\* JavaScript's \w
WordSet == LowerSet \cup UpperSet \cup DigitSet \cup {"_"}

SetMin(S) == CHOOSE x \in S : \A y \in S : x <= y
SetMax(S) == CHOOSE x \in S : \A y \in S : x >= y
MinOf(a, b) == IF a <= b THEN a ELSE b

IsSpace(c) == c \in WhitespaceSet

ToLowerChar(c) ==
  IF c \in UpperSet
    THEN LowerLetters[CHOOSE i \in 1..Len(UpperLetters) : UpperLetters[i] = c]
    ELSE c

\* a sequence that is given element by element, with its elements worked out
Written(f) == f \o <<>>

\* String.prototype.toLowerCase
toLowerCase(s) == Written([i \in 1..Len(s) |-> ToLowerChar(s[i])])

\* String.prototype.includes
includes(s, pat) ==
  \/ pat = <<>>
  \/ \E i \in 1..(Len(s) - Len(pat) + 1) :
       s[i] = pat[1] /\ SubSeq(s, i, i + Len(pat) - 1) = pat

\* String.prototype.startsWith
startsWith(s, pat) == Len(pat) <= Len(s) /\ SubSeq(s, 1, Len(pat)) = pat

\* String.prototype.endsWith
endsWith(s, pat) ==
  Len(pat) <= Len(s) /\ SubSeq(s, Len(s) - Len(pat) + 1, Len(s)) = pat

\* the first place of s whose character is in the set, Len(s) + 1 when there
\* is none
FirstIn(s, set) ==
  CHOOSE i \in 1..(Len(s) + 1) :
    (i = Len(s) + 1 \/ s[i] \in set) /\ \A j \in 1..(i - 1) : s[j] \notin set

\* the first and the last place of s whose character is not in the set,
\* Len(s) + 1 and 0 when there is none
FirstNotIn(s, set) ==
  CHOOSE i \in 1..(Len(s) + 1) :
    (i = Len(s) + 1 \/ s[i] \notin set) /\ \A j \in 1..(i - 1) : s[j] \in set

LastNotIn(s, set) ==
  Len(s) - (CHOOSE k \in 0..Len(s) :
              /\ k = Len(s) \/ s[Len(s) - k] \notin set
              /\ \A j \in 1..k : s[Len(s) + 1 - j] \in set)

\* String.prototype.trim
trim(s) == SubSeq(s, FirstNotIn(s, WhitespaceSet), LastNotIn(s, WhitespaceSet))

\* String.prototype.substring(0, n)
substring0(s, n) == SubSeq(s, 1, MinOf(n, Len(s)))

\* s.replace(/\s+/g, ' '): every maximal run of whitespace becomes one space
collapseWhitespace(s) ==
  LET first(i) == ~IsSpace(s[i]) \/ i = 1 \/ ~IsSpace(s[i - 1])
      idx == SelectSeq([i \in 1..Len(s) |-> i], first)
  IN  Written([k \in 1..Len(idx) |-> IF IsSpace(s[idx[k]]) THEN " " ELSE s[idx[k]]])

\* the index of the first occurrence of character c in s, 0 when absent
IndexOfChar(s, c) ==
  LET at == FirstIn(s, {c})
  IN  IF at > Len(s) THEN 0 ELSE at

\* ------------------------------------------------------------------------
\* extractDomain: new URL(url).hostname.toLowerCase(), 'unknown' on a throw.
\* new URL is the platform's parser, the URL Standard's basic URL parser
\* called without a base. The model follows it up to the host for strings of
\* printable ASCII characters, tabs and line breaks. Outside the model: a
\* character beyond ASCII, a percent escape of a byte above 7F (taken as an
\* invalid host) and the Punycode check of an "xn--" label.
\* ------------------------------------------------------------------------
\* the parser fails: new URL throws a TypeError
InvalidURL == <<"TypeError: Invalid URL">>

\* the printable ASCII characters U+0020..U+007E, in order ("grave" is
\* U+0060, which a string of this notation cannot hold)
Ascii ==
  <<" ", "!", "\"", "#", "$", "%", "&", "'", "(", ")", "*", "+", ",", "-", ".", "/",
    "0", "1", "2", "3", "4", "5", "6", "7", "8", "9", ":", ";", "<", "=", ">", "?",
    "@", "A", "B", "C", "D", "E", "F", "G", "H", "I", "J", "K", "L", "M", "N", "O",
    "P", "Q", "R", "S", "T", "U", "V", "W", "X", "Y", "Z", "[", "\\", "]", "^", "_",
    "grave", "a", "b", "c", "d", "e", "f", "g", "h", "i", "j", "k", "l", "m", "n", "o",
    "p", "q", "r", "s", "t", "u", "v", "w", "x", "y", "z", "{", "|", "}", "~">>

HexDigits == <<"0","1","2","3","4","5","6","7","8","9","a","b","c","d","e","f">>

\* the value of a hexadecimal digit
HexValue(c) == (CHOOSE k \in 1..16 : HexDigits[k] = ToLowerChar(c)) - 1

\* the last element of a sequence that has one
Last(s) == s[Len(s)]

\* the parts of s between the occurrences of the character sep
splitOn(s, sep) ==
  LET isSep(i) == s[i] = sep
      at == SelectSeq([i \in 1..Len(s) |-> i], isSep)
      from(k) == IF k = 1 THEN 1 ELSE at[k - 1] + 1
      to(k) == IF k = Len(at) + 1 THEN Len(s) ELSE at[k] - 1
  IN  Written([k \in 1..(Len(at) + 1) |-> SubSeq(s, from(k), to(k))])

\* leading and trailing C0 controls and spaces are stripped, then every tab
\* and line break is removed
UrlInput(url) ==
  LET strip == {" ", "\t", "\n", "\r"}
      kept(c) == c \notin {"\t", "\n", "\r"}
  IN  SelectSeq(SubSeq(url, FirstNotIn(url, strip), LastNotIn(url, strip)), kept)

\* scheme start state and scheme state: the place of the ':' that ends the
\* scheme, 0 when the input has no scheme (a failure, there being no base)
UrlSchemeEnd(input) ==
  LET colon == IndexOfChar(input, ":")
  IN  IF /\ colon > 1
         /\ input[1] \in (LowerSet \cup UpperSet)
         /\ \A i \in 2..(colon - 1) :
              input[i] \in (LowerSet \cup UpperSet \cup DigitSet \cup {"+", "-", "."})
        THEN colon
        ELSE 0

\* what follows the scheme's ':'
UrlAfterColon(input) == SubSeq(input, UrlSchemeEnd(input) + 1, Len(input))

UrlRest(url) == UrlAfterColon(UrlInput(url))

\* the special schemes other than file
SpecialSchemes == { <<"h","t","t","p">>, <<"h","t","t","p","s">>, <<"f","t","p">>, <<"w","s">>, <<"w","s","s">> }

\* special authority slashes and ignore slashes states: after a special
\* scheme every leading '/' and '\' is skipped, however many there are
UrlAfterScheme(rest) == SubSeq(rest, FirstNotIn(rest, {"/", "\\"}), Len(rest))

\* authority state: up to the first '/', '?' or '#', and for a special
\* scheme up to the first '\' as well
UrlAuthority(rest, special) ==
  SubSeq(rest, 1, FirstIn(rest, IF special THEN {"/", "?", "#", "\\"} ELSE {"/", "?", "#"}) - 1)

\* without the credentials, which end at the last '@'; credentials with
\* nothing behind them are a failure
UrlHostPort(auth) ==
  LET at == {i \in 1..Len(auth) : auth[i] = "@"}
  IN  IF at = {} THEN auth
      ELSE IF SetMax(at) = Len(auth) THEN InvalidURL
      ELSE SubSeq(auth, SetMax(at) + 1, Len(auth))

\* the number a string of digits spells in a radix, kept in two halves
\* (hi * 65536 + lo); hi = 65536 stands for every number from 2^32 on
RECURSIVE digitsValue(_, _, _)
digitsValue(s, radix, acc) ==
  IF s = <<>> THEN acc
  ELSE LET lo == (acc.lo * radix) + HexValue(Head(s))
           hi == (acc.hi * radix) + (lo \div 65536)
       IN  digitsValue(Tail(s), radix,
                       [ok |-> TRUE, hi |-> MinOf(hi, 65536), lo |-> lo % 65536])

\* the number zero in two halves
Zero == [ok |-> TRUE, hi |-> 0, lo |-> 0]

\* port state: digits only, and a number of at most 65535
ValidPort(port) ==
  /\ \A i \in 1..Len(port) : port[i] \in DigitSet
  /\ digitsValue(port, 10, Zero).hi = 0

\* host state and port state: the host ends at the first ':' outside square
\* brackets; an empty host is a failure before a port and for a special scheme
UrlHost(hostport, special) ==
  LET inBrackets(i) ==
        LET before == {j \in 1..(i - 1) : hostport[j] \in {"[", "]"}}
        IN  before # {} /\ hostport[SetMax(before)] = "["
      colons == {i \in 1..Len(hostport) : hostport[i] = ":" /\ ~inBrackets(i)}
      colon == IF colons = {} THEN 0 ELSE SetMin(colons)
  IN  IF hostport = InvalidURL THEN InvalidURL
      ELSE IF colon = 0
        THEN IF hostport = <<>> /\ special THEN InvalidURL ELSE hostport
      ELSE IF colon = 1 THEN InvalidURL
      ELSE IF ~ValidPort(SubSeq(hostport, colon + 1, Len(hostport))) THEN InvalidURL
      ELSE SubSeq(hostport, 1, colon - 1)

\* forbidden host code points, and what a domain must not hold besides: '%'
\* and a control character ("byte" stands for an escape that decodes to a
\* control character or to a byte above 7F)
ForbiddenHost ==
  {"\t", "\n", "\r", " ", "#", "/", ":", "<", ">", "?", "@", "[", "\\", "]", "^", "|"}
ForbiddenDomain == ForbiddenHost \cup {"%", "byte"}

\* percent-decoding of a host: '%' and two hexadecimal digits become the
\* byte's character, any other '%' stays
hostPercentDecode(s) ==
  LET escape(i) ==
        s[i] = "%" /\ i + 2 <= Len(s) /\ s[i + 1] \in HexSet /\ s[i + 2] \in HexSet
      shown(i) == ~((i > 1 /\ escape(i - 1)) \/ (i > 2 /\ escape(i - 2)))
      character(byte) == IF byte \in 32..126 THEN Ascii[byte - 31] ELSE "byte"
      decoded(i) ==
        IF escape(i) THEN character((16 * HexValue(s[i + 1])) + HexValue(s[i + 2]))
        ELSE s[i]
      decodedAll(idx) == Written([k \in 1..Len(idx) |-> decoded(idx[k])])
  IN  IF FirstIn(s, {"%"}) > Len(s) THEN s
      ELSE decodedAll(SelectSeq([i \in 1..Len(s) |-> i], shown))

\* the IPv4 number parser: 0x or 0X starts a hexadecimal number, any other
\* leading 0 an octal one; ok is FALSE on a failure
ipv4Number(part) ==
  LET hex == Len(part) >= 2 /\ part[1] = "0" /\ part[2] \in {"x", "X"}
      octal == ~hex /\ Len(part) >= 2 /\ part[1] = "0"
      digits == IF hex THEN SubSeq(part, 3, Len(part))
                ELSE IF octal THEN Tail(part) ELSE part
      allowed == IF hex THEN HexSet
                 ELSE IF octal THEN DigitSet \ {"8", "9"} ELSE DigitSet
  IN  IF part = <<>> \/ \E i \in 1..Len(digits) : digits[i] \notin allowed
        THEN [ok |-> FALSE, hi |-> 0, lo |-> 0]
        ELSE digitsValue(digits, IF hex THEN 16 ELSE IF octal THEN 8 ELSE 10, Zero)

\* the parts of a domain between its dots, one trailing empty part dropped
domainParts(domain) ==
  LET parts == splitOn(domain, ".")
  IN  IF Len(parts) > 1 /\ Last(parts) = <<>>
        THEN SubSeq(parts, 1, Len(parts) - 1)
        ELSE parts

\* the ends-in-a-number checker
isNumber(last) ==
  \/ last # <<>> /\ \A i \in 1..Len(last) : last[i] \in DigitSet
  \/ ipv4Number(last).ok

endsInNumber(domain) == isNumber(Last(domainParts(domain)))

\* a number below 256 in decimal digits
decimal(n) ==
  LET d(k) == HexDigits[k + 1]
  IN  IF n >= 100 THEN <<d(n \div 100), d((n \div 10) % 10), d(n % 10)>>
      ELSE IF n >= 10 THEN <<d(n \div 10), d(n % 10)>>
      ELSE <<d(n)>>

\* the IPv4 parser and serializer: at most four numbers, every number but the
\* last below 256, the last filling the bytes that remain
ipv4OfNumbers(numbers) ==
  LET n == Len(numbers)
      last == numbers[n]
      fits == CASE n = 1 -> last.hi < 65536
                [] n = 2 -> last.hi < 256
                [] n = 3 -> last.hi = 0
                [] OTHER -> last.hi = 0 /\ last.lo < 256
      ofLast == <<last.hi \div 256, last.hi % 256, last.lo \div 256, last.lo % 256>>
      byte(k) == IF k < n THEN numbers[k].lo ELSE ofLast[k]
  IN  IF \/ n > 4
         \/ \E k \in 1..n : ~numbers[k].ok
         \/ \E k \in 1..(n - 1) : numbers[k].hi > 0 \/ numbers[k].lo > 255
         \/ ~fits
        THEN InvalidURL
        ELSE decimal(byte(1)) \o <<".">> \o decimal(byte(2)) \o <<".">> \o
             decimal(byte(3)) \o <<".">> \o decimal(byte(4))

parseIPv4(domain) ==
  LET numbers(parts) == Written([k \in 1..Len(parts) |-> ipv4Number(parts[k])])
  IN  ipv4OfNumbers(numbers(domainParts(domain)))

\* a 16-bit piece in hexadecimal digits, without leading zeros
hexPiece(n) ==
  LET all == <<HexDigits[(n \div 4096) + 1], HexDigits[((n \div 256) % 16) + 1],
               HexDigits[((n \div 16) % 16) + 1], HexDigits[(n % 16) + 1]>>
      sig == {i \in 1..4 : all[i] # "0"}
  IN  IF sig = {} THEN <<"0">> ELSE SubSeq(all, SetMin(sig), 4)

\* the IPv6 parser: the eight pieces of the address, <<>> on a failure. At
\* most one '::'; every field one to four hexadecimal digits, but the last
\* may be four decimal numbers below 256 with dots between them.
\* the given pieces in their places, zeros where the '::' stands
ipv6Place(given, nLeft, compress) ==
  IF (compress /\ Len(given) > 7) \/ (~compress /\ Len(given) # 8) THEN <<>>
  ELSE [k \in 1..8 |->
          IF k <= (IF compress THEN nLeft ELSE 8) THEN given[k]
          ELSE IF k <= 8 - (Len(given) - nLeft) THEN 0
          ELSE given[k - (8 - Len(given))]]

\* the fields left and right of the '::' (all of them left when there is none)
ipv6OfFields(left, right, compress) ==
  LET fields == left \o right
      dotted == fields # <<>> /\ IndexOfChar(Last(fields), ".") # 0
      quad == splitOn(Last(fields), ".")
      num(k) == digitsValue(quad[k], 10, Zero).lo
      quadOk == /\ Len(quad) = 4
                /\ \A k \in 1..4 :
                     /\ Len(quad[k]) \in 1..3
                     /\ \A i \in 1..Len(quad[k]) : quad[k][i] \in DigitSet
                     /\ Len(quad[k]) > 1 => quad[k][1] # "0"
                     /\ num(k) <= 255
      hexFields == IF dotted THEN SubSeq(fields, 1, Len(fields) - 1) ELSE fields
      hexOk == \A k \in 1..Len(hexFields) :
                 /\ Len(hexFields[k]) \in 1..4
                 /\ \A i \in 1..Len(hexFields[k]) : hexFields[k][i] \in HexSet
  IN  IF \/ ~hexOk
         \/ dotted /\ ~quadOk
         \/ dotted /\ compress /\ right = <<>>
        THEN <<>>
        ELSE ipv6Place([k \in 1..Len(hexFields) |-> digitsValue(hexFields[k], 16, Zero).lo] \o
                       (IF dotted
                          THEN <<(num(1) * 256) + num(2), (num(3) * 256) + num(4)>>
                          ELSE <<>>),
                       Len(left), compress)

ipv6Pieces(s) ==
  LET doubles == {i \in 1..(Len(s) - 1) : s[i] = ":" /\ s[i + 1] = ":"}
      fieldsOf(x) == IF x = <<>> THEN <<>> ELSE splitOn(x, ":")
  IN  IF Cardinality(doubles) > 1 THEN <<>>
      ELSE IF doubles = {} THEN ipv6OfFields(fieldsOf(s), <<>>, FALSE)
      ELSE ipv6OfFields(fieldsOf(SubSeq(s, 1, SetMin(doubles) - 1)),
                        fieldsOf(SubSeq(s, SetMin(doubles) + 2, Len(s))), TRUE)

\* the IPv6 serializer: the first longest run of two or more zero pieces is
\* written '::'
RECURSIVE ipv6Join(_, _, _)
ipv6Join(pieces8, from, to) ==
  IF from > to THEN <<>>
  ELSE IF from = to THEN hexPiece(pieces8[from])
  ELSE hexPiece(pieces8[from]) \o <<":">> \o ipv6Join(pieces8, from + 1, to)

ipv6Text(pieces8) ==
  LET run(i) == SetMax({n \in 0..(9 - i) : \A k \in i..(i + n - 1) : pieces8[k] = 0})
      best == SetMax({run(i) : i \in 1..8})
      start == SetMin({i \in 1..8 : run(i) = best})
  IN  IF best < 2 THEN ipv6Join(pieces8, 1, 8)
      ELSE ipv6Join(pieces8, 1, start - 1) \o <<":", ":">> \o
           ipv6Join(pieces8, start + best, 8)

ipv6Host(address) ==
  IF address = <<>> THEN InvalidURL ELSE <<"[">> \o ipv6Text(address) \o <<"]">>

\* a domain, and an IPv4 address when its last part is a number
parseDomain(domain) ==
  IF domain = <<>> \/ \E i \in 1..Len(domain) : domain[i] \in ForbiddenDomain
    THEN InvalidURL
  ELSE IF endsInNumber(domain) THEN parseIPv4(domain)
  ELSE domain

\* the host parser: an IPv6 address in square brackets; for a scheme that is
\* not special an opaque host, kept as written; else a domain, percent-decoded
\* and lowercased
parseHost(input, special) ==
  IF input = InvalidURL THEN InvalidURL
  ELSE IF input # <<>> /\ input[1] = "["
    THEN IF Last(input) # "]" THEN InvalidURL
         ELSE ipv6Host(ipv6Pieces(SubSeq(input, 2, Len(input) - 1)))
  ELSE IF ~special
    THEN IF \E i \in 1..Len(input) : input[i] \in ForbiddenHost
           THEN InvalidURL ELSE input
  ELSE parseDomain(toLowerCase(hostPercentDecode(input)))

\* file, file slash and file host states: a host only behind two slashes, up
\* to the next '/', '\', '?' or '#'; a drive letter and localhost are no host
fileHost(rest) ==
  LET slash(i) == rest[i] \in {"/", "\\"}
      buffer == IF Len(rest) >= 2 /\ slash(1) /\ slash(2)
                  THEN UrlAuthority(SubSeq(rest, 3, Len(rest)), TRUE)
                  ELSE <<>>
      drive == /\ Len(buffer) = 2
               /\ buffer[1] \in (LowerSet \cup UpperSet)
               /\ buffer[2] \in {":", "|"}
      notLocalhost(host) == IF host = <<"l","o","c","a","l","h","o","s","t">> THEN <<>> ELSE host
  IN  IF buffer = <<>> \/ drive THEN <<>>
      ELSE notLocalhost(parseHost(buffer, TRUE))

\* the host of a url with this scheme: a file host; behind the slashes of a
\* special scheme; behind the '//' of another scheme, which has no host
\* without them
UrlHostOf(scheme, rest) ==
  LET special == scheme \in SpecialSchemes
      behindSlashes == IF special THEN UrlAfterScheme(rest) ELSE SubSeq(rest, 3, Len(rest))
  IN  IF scheme = <<"f","i","l","e">> THEN fileHost(rest)
      ELSE IF special \/ startsWith(rest, <<"/","/">>)
        THEN parseHost(UrlHost(UrlHostPort(UrlAuthority(behindSlashes, special)), special),
                       special)
      ELSE <<>>

UrlParse(input) ==
  LET colon == UrlSchemeEnd(input)
  IN  IF colon = 0 THEN InvalidURL
      ELSE UrlHostOf(toLowerCase(SubSeq(input, 1, colon - 1)),
                     SubSeq(input, colon + 1, Len(input)))

\* new URL(url).hostname: InvalidURL when the parser fails, the empty string
\* when the url has no host (a scheme that is not special without '//')
UrlHostname(url) == UrlParse(UrlInput(url))

\* the catch block answers a throw with 'unknown'
hostnameOrUnknown(hostname) ==
  IF hostname = InvalidURL THEN <<"u","n","k","n","o","w","n">> ELSE toLowerCase(hostname)

extractDomain(url) == hostnameOrUnknown(UrlHostname(url))

\* ------------------------------------------------------------------------
\* Content classifier (redhatContentService.js)
\* ------------------------------------------------------------------------
redhatKeywords ==
  { <<"r","e","d"," ","h","a","t">>, <<"r","e","d","h","a","t">>, <<"o","p","e","n","s","h","i","f","t">>, <<"a","n","s","i","b","l","e">>, <<"r","h","e","l">>,
    <<"f","e","d","o","r","a">>, <<"c","e","n","t","o","s">>, <<"j","b","o","s","s">>, <<"w","i","l","d","f","l","y">>, <<"c","e","p","h">>,
    <<"g","l","u","s","t","e","r">>, <<"s","a","t","e","l","l","i","t","e">>, <<"i","n","s","i","g","h","t","s">>, <<"q","u","a","y">>, <<"t","e","k","t","o","n">> }

redhatDomains ==
  { <<"r","e","d","h","a","t",".","c","o","m">>, <<"t","v",".","r","e","d","h","a","t",".","c","o","m">>, <<"a","c","c","e","s","s",".","r","e","d","h","a","t",".","c","o","m">>,
    <<"d","o","c","s",".","r","e","d","h","a","t",".","c","o","m">>, <<"d","o","c","s",".","a","n","s","i","b","l","e",".","c","o","m">>, <<"c","o","n","s","o","l","e",".","r","e","d","h","a","t",".","c","o","m">>,
    <<"c","a","t","a","l","o","g",".","r","e","d","h","a","t",".","c","o","m">>, <<"d","e","v","e","l","o","p","e","r","s",".","r","e","d","h","a","t",".","c","o","m">> }

isRedHatRelated(title, url, description) ==
  LET content == toLowerCase(title \o <<" ">> \o url \o <<" ">> \o description)
      hasRedHatKeywords == \E k \in redhatKeywords : includes(content, k)
      hasRedHatDomain == \E d \in redhatDomains : includes(toLowerCase(url), d)
  IN  IF includes(url, <<"y","o","u","t","u","b","e",".","c","o","m">>)
        THEN hasRedHatKeywords /\
             ( \/ includes(toLowerCase(title), <<"r","e","d"," ","h","a","t">>)
               \/ includes(toLowerCase(description), <<"r","e","d"," ","h","a","t">>)
               \/ includes(toLowerCase(title), <<"o","p","e","n","s","h","i","f","t">>)
               \/ includes(toLowerCase(title), <<"a","n","s","i","b","l","e">>) )
        ELSE hasRedHatKeywords \/ hasRedHatDomain

\* the characters cleanTitle keeps: [\w\s\-\(\)\[\]\.,:;!?'"]
TitleSafeSet ==
  WordSet \cup WhitespaceSet \cup
  {"-", "(", ")", "[", "]", ".", ",", ":", ";", "!", "?", "'", "\""}

cleanTitle(title) ==
  LET safe(c) == c \in TitleSafeSet
  IN  trim(SelectSeq(collapseWhitespace(title), safe))

\* s.replace(/^\.\.\.\s*/, '')
stripLeadingEllipsis(s) ==
  IF startsWith(s, <<".",".",".">>)
    THEN LET rest == SubSeq(s, 4, Len(s))
             ns == {i \in 1..Len(rest) : ~IsSpace(rest[i])}
         IN  IF ns = {} THEN <<>> ELSE SubSeq(rest, SetMin(ns), Len(rest))
    ELSE s

\* s.replace(/\s*\.\.\.$/, '')
stripTrailingEllipsis(s) ==
  IF endsWith(s, <<".",".",".">>)
    THEN LET rest == SubSeq(s, 1, Len(s) - 3)
             ns == {i \in 1..Len(rest) : ~IsSpace(rest[i])}
         IN  IF ns = {} THEN <<>> ELSE SubSeq(rest, 1, SetMax(ns))
    ELSE s

cleanDescription(description) ==
  trim(stripTrailingEllipsis(stripLeadingEllipsis(collapseWhitespace(description))))

\* null / undefined, distinct from every string (a string's elements are
\* single characters)
NoValue == <<"null">>

\* JavaScript truthiness of a string-or-null value
Truthy(v) == v # NoValue /\ v # <<>>

\* Mutant: the .pdf rule is tried before the training rule.
determineContentTypePdfFirst(url, title) ==
  IF ~Truthy(url) THEN "unknown"
  ELSE
    LET urlLower == toLowerCase(url)
        titleLower == toLowerCase(title)
    IN  IF includes(urlLower, <<"y","o","u","t","u","b","e",".","c","o","m">>) \/ includes(urlLower, <<"y","o","u","t","u",".","b","e">>)
             \/ includes(urlLower, <<"t","v",".","r","e","d","h","a","t",".","c","o","m">>)
          THEN "video"
        ELSE IF \/ includes(urlLower, <<"d","o","c","s",".">>)
                \/ includes(urlLower, <<"d","o","c","u","m","e","n","t","a","t","i","o","n">>)
                \/ includes(urlLower, <<"a","c","c","e","s","s",".","r","e","d","h","a","t",".","c","o","m">>)
                \/ includes(titleLower, <<"d","o","c","u","m","e","n","t","a","t","i","o","n">>)
                \/ includes(titleLower, <<"g","u","i","d","e">>)
          THEN "documentation"
        ELSE IF includes(urlLower, <<".","p","d","f">>)
          THEN "pdf"
        ELSE IF \/ includes(urlLower, <<"t","r","a","i","n","i","n","g">>)
                \/ includes(urlLower, <<"c","e","r","t","i","f","i","c","a","t","i","o","n">>)
                \/ includes(urlLower, <<"c","o","u","r","s","e">>)
                \/ includes(titleLower, <<"t","r","a","i","n","i","n","g">>)
                \/ includes(titleLower, <<"c","e","r","t","i","f","i","c","a","t","i","o","n">>)
                \/ includes(titleLower, <<"c","o","u","r","s","e">>)
          THEN "training"
        ELSE IF \/ includes(titleLower, <<"v","i","d","e","o">>)
                \/ includes(titleLower, <<"t","u","t","o","r","i","a","l">>)
                \/ includes(titleLower, <<"d","e","m","o">>)
          THEN "video"
        ELSE "article"

determineContentType(url, title) ==
  IF ~Truthy(url) THEN "unknown"
  ELSE
    LET urlLower == toLowerCase(url)
        titleLower == toLowerCase(title)
    IN  IF includes(urlLower, <<"y","o","u","t","u","b","e",".","c","o","m">>) \/ includes(urlLower, <<"y","o","u","t","u",".","b","e">>)
          THEN "video"
        ELSE IF includes(urlLower, <<"t","v",".","r","e","d","h","a","t",".","c","o","m">>)
          THEN "video"
        ELSE IF \/ includes(urlLower, <<"d","o","c","s",".">>)
                \/ includes(urlLower, <<"d","o","c","u","m","e","n","t","a","t","i","o","n">>)
                \/ includes(urlLower, <<"a","c","c","e","s","s",".","r","e","d","h","a","t",".","c","o","m">>)
                \/ includes(titleLower, <<"d","o","c","u","m","e","n","t","a","t","i","o","n">>)
                \/ includes(titleLower, <<"g","u","i","d","e">>)
          THEN "documentation"
        ELSE IF \/ includes(urlLower, <<"t","r","a","i","n","i","n","g">>)
                \/ includes(urlLower, <<"c","e","r","t","i","f","i","c","a","t","i","o","n">>)
                \/ includes(urlLower, <<"c","o","u","r","s","e">>)
                \/ includes(titleLower, <<"t","r","a","i","n","i","n","g">>)
                \/ includes(titleLower, <<"c","e","r","t","i","f","i","c","a","t","i","o","n">>)
                \/ includes(titleLower, <<"c","o","u","r","s","e">>)
          THEN "training"
        ELSE IF includes(urlLower, <<".","p","d","f">>)
          THEN "pdf"
        ELSE IF \/ includes(titleLower, <<"v","i","d","e","o">>)
                \/ includes(titleLower, <<"t","u","t","o","r","i","a","l">>)
                \/ includes(titleLower, <<"d","e","m","o">>)
          THEN "video"
        ELSE "article"

\* an argument that was not passed
Undefined == <<"undefined">>

\* how a call ends
Return(value) == [kind |-> "return", value |-> value]
Throw(name) == [kind |-> "throw", value |-> name]

\* a call of determineContentType(url, title = ''): the default stands in for
\* a title that was not passed; null.toLowerCase() throws a TypeError
determineContentTypeCall(url, title) ==
  IF ~Truthy(url) \/ url = Undefined THEN Return("unknown")
  ELSE IF title = NoValue THEN Throw("TypeError")
  ELSE Return(determineContentType(url, IF title = Undefined THEN <<>> ELSE title))

\* ------------------------------------------------------------------------
\* deduplicateResults
\* ------------------------------------------------------------------------
\* the characters kept by .replace(/[^a-z0-9\s]/g, '')
KeyCharSet == LowerSet \cup DigitSet \cup WhitespaceSet

KeyTitleLen == 50

normalizedTitle(title) ==
  LET keep(c) == c \in KeyCharSet
  IN  trim(collapseWhitespace(SelectSeq(toLowerCase(title), keep)))

\* Mutant: the key takes the whole normalized title.
dedupKeyWholeTitle(result) ==
  normalizedTitle(result.title) \o <<"-">> \o extractDomain(result.url)

\* `${normalizedTitle.substring(0, 50)}-${domain}`
dedupKey(result) ==
  substring0(normalizedTitle(result.title), KeyTitleLen) \o <<"-">> \o
  extractDomain(result.url)

RECURSIVE uniqueLoop(_, _, _, _)
\* Mutant: the loop without its test for an empty title or url.
uniqueVisitKeepEmpty(results, i, seen, uniqueResults, key) ==
  IF key \in seen
    THEN uniqueLoop(results, i + 1, seen, uniqueResults)
  ELSE uniqueLoop(results, i + 1, seen \cup {key}, Append(uniqueResults, results[i]))

\* one turn of the loop, key being the result's key
uniqueVisit(results, i, seen, uniqueResults, key) ==
  IF results[i].title = <<>> \/ results[i].url = <<>>
    THEN uniqueLoop(results, i + 1, seen, uniqueResults)
  ELSE IF key \in seen
    THEN uniqueLoop(results, i + 1, seen, uniqueResults)
  ELSE uniqueLoop(results, i + 1, seen \cup {key}, Append(uniqueResults, results[i]))

uniqueLoop(results, i, seen, uniqueResults) ==
  IF i > Len(results) THEN uniqueResults
  ELSE uniqueVisit(results, i, seen, uniqueResults, dedupKey(results[i]))

typeOrder(type) ==
  CASE type = "video" -> 1
    [] type = "training" -> 2
    [] type = "documentation" -> 3
    [] type = "article" -> 4
    [] type = "pdf" -> 5
    [] OTHER -> 6

isRedHatDomain(result) == includes(result.domain, <<"r","e","d","h","a","t",".","c","o","m">>)

\* the comparator handed to Array.prototype.sort
compareResults(a, b) ==
  IF isRedHatDomain(a) /\ ~isRedHatDomain(b) THEN -1
  ELSE IF ~isRedHatDomain(a) /\ isRedHatDomain(b) THEN 1
  ELSE typeOrder(a.type) - typeOrder(b.type)

\* Mutant: an unstable sort, which puts an element before its equals.
sortInsertUnstable(sorted, x) ==
  LET k == Cardinality({i \in 1..Len(sorted) : compareResults(sorted[i], x) < 0})
  IN  SubSeq(sorted, 1, k) \o <<x>> \o SubSeq(sorted, k + 1, Len(sorted))

\* Array.prototype.sort is stable: an element goes after every element that
\* does not compare greater than it.
sortInsert(sorted, x) ==
  LET k == Cardinality({i \in 1..Len(sorted) : compareResults(sorted[i], x) <= 0})
  IN  SubSeq(sorted, 1, k) \o <<x>> \o SubSeq(sorted, k + 1, Len(sorted))

RECURSIVE sortResults(_)
sortResults(seq) ==
  IF seq = <<>> THEN <<>>
  ELSE sortInsert(sortResults(SubSeq(seq, 1, Len(seq) - 1)), seq[Len(seq)])

deduplicateResults(results) == sortResults(uniqueLoop(results, 1, {}, <<>>))

\* ------------------------------------------------------------------------
\* performDuckDuckGoSearch: from the parsed page to the result list.
\* A block is what the cheerio queries of one result element yield:
\*   titleText, titleHref : text and href of the first '.result__title a,
\*                          .result-title a' (href NoValue when absent)
\*   snippet              : text of the first '.result__snippet, .snippet'
\*   linkText, linkHref   : text and href of the element's first 'a'
\*   text                 : the element's whole text
\* A page is, for each of the three result selectors in order, the blocks
\* that selector matches.
\* ------------------------------------------------------------------------
maxResults == 15
DescriptionFallbackLen == 200

resultSelectors == <<".result", ".results_links", ".result__body">>

\* the percent escapes the model's inputs use
PercentTable ==
  [p \in { <<"3","A">>, <<"2","F">>, <<"3","F">>, <<"3","D">>, <<"2","6">>, <<"2","5">>, <<"2","0">> } |->
     CASE p = <<"3","A">> -> ":"
       [] p = <<"2","F">> -> "/"
       [] p = <<"3","F">> -> "?"
       [] p = <<"3","D">> -> "="
       [] p = <<"2","6">> -> "&"
       [] p = <<"2","5">> -> "%"
       [] p = <<"2","0">> -> " "]

IsEscapeAt(s, i) ==
  s[i] = "%" /\ i + 2 <= Len(s) /\ s[i + 1] \in HexSet /\ s[i + 2] \in HexSet

\* a malformed escape: decodeURIComponent throws URIError on it
MalformedEscape(s) == \E i \in 1..Len(s) : s[i] = "%" /\ ~IsEscapeAt(s, i)

RECURSIVE percentDecodeFrom(_, _)
percentDecodeFrom(s, i) ==
  IF i > Len(s) THEN <<>>
  ELSE IF IsEscapeAt(s, i) /\ SubSeq(s, i + 1, i + 2) \in DOMAIN PercentTable
    THEN <<PercentTable[SubSeq(s, i + 1, i + 2)]>> \o percentDecodeFrom(s, i + 3)
  ELSE <<s[i]>> \o percentDecodeFrom(s, i + 1)

\* percent-decoding that leaves a malformed escape as it is (URLSearchParams)
percentDecode(s) == percentDecodeFrom(s, 1)

\* url.split('?')[1]
splitQuery(url) ==
  LET q1 == IndexOfChar(url, "?")
      rest == SubSeq(url, q1 + 1, Len(url))
      q2 == IndexOfChar(rest, "?")
  IN  IF q2 = 0 THEN rest ELSE SubSeq(rest, 1, q2 - 1)

\* new URLSearchParams(qs).get('uddg') for a qs that starts with 'uddg=':
\* the value runs to the first '&'; '+' decodes to a space
searchParamUddg(qs) ==
  LET v0 == SubSeq(qs, 6, Len(qs))
      amp == IndexOfChar(v0, "&")
      v == IF amp = 0 THEN v0 ELSE SubSeq(v0, 1, amp - 1)
      plus == Written([i \in 1..Len(v) |-> IF v[i] = "+" THEN " " ELSE v[i]])
  IN  percentDecode(plus)

\* the "Clean up the URL" step; NoValue stands for null/undefined
cleanUrl(url) ==
  IF ~Truthy(url) THEN url
  ELSE IF startsWith(url, <<"/","l","/","?","u","d","d","g","=">>)
    THEN LET v == searchParamUddg(splitQuery(url))
         IN  IF MalformedEscape(v) THEN NoValue ELSE percentDecode(v)
  ELSE IF startsWith(url, <<"/">>)
    THEN <<"h","t","t","p","s",":","/","/","d","u","c","k","d","u","c","k","g","o",".","c","o","m">> \o url
  ELSE url

\* text.replace(title, ''): the first occurrence is removed
replaceFirst(text, pat) ==
  LET at == {i \in 0..(Len(text) - Len(pat)) : SubSeq(text, i + 1, i + Len(pat)) = pat}
  IN  IF at = {} THEN text
      ELSE SubSeq(text, 1, SetMin(at)) \o SubSeq(text, SetMin(at) + Len(pat) + 1, Len(text))

blockTitle(block) ==
  IF trim(block.titleText) # <<>> THEN trim(block.titleText) ELSE trim(block.linkText)

blockUrl(block) ==
  cleanUrl(IF Truthy(block.titleHref) THEN block.titleHref ELSE block.linkHref)

blockDescription(block) ==
  IF trim(block.snippet) # <<>> THEN trim(block.snippet)
  ELSE substring0(trim(replaceFirst(block.text, blockTitle(block))), DescriptionFallbackLen)

\* "Only include valid Red Hat related results"
blockRetained(title, url, description) ==
  /\ title # <<>>
  /\ Truthy(url)
  /\ isRedHatRelated(title, url, description)

\* Mutant: the domain is the host as the url spells it.
makeResultHostAsTyped(title, url, description, query, source) ==
  [ title |-> cleanTitle(title),
    url |-> url,
    description |-> cleanDescription(description),
    type |-> determineContentType(url, title),
    source |-> source,
    searchQuery |-> query,
    domain |-> UrlHost(UrlHostPort(UrlAuthority(UrlAfterScheme(UrlRest(url)), TRUE)), TRUE) ]

\* the object pushed for a retained block
makeResult(title, url, description, query, source) ==
  [ title |-> cleanTitle(title),
    url |-> url,
    description |-> cleanDescription(description),
    type |-> determineContentType(url, title),
    source |-> source,
    searchQuery |-> query,
    domain |-> extractDomain(url) ]

\* what one block adds to results, given its title, url and description
pushed(title, url, description, query, source) ==
  IF blockRetained(title, url, description)
    THEN << makeResult(title, url, description, query, source) >>
    ELSE <<>>

\* the .each callback on one block
eachBlock(block, query, source) ==
  pushed(blockTitle(block), blockUrl(block), blockDescription(block), query, source)

RECURSIVE eachLoop(_, _, _, _, _)
eachLoop(blocks, i, n, query, source) ==
  IF i > n THEN <<>>
  ELSE eachBlock(blocks[i], query, source) \o eachLoop(blocks, i + 1, n, query, source)

\* Mutant: every block of the selector is looked at.
selectorResultsUncapped(blocks, query, source) ==
  eachLoop(blocks, 1, Len(blocks), query, source)

\* the .each callback over one selector's blocks: only the first maxResults
\* blocks are looked at
selectorResults(blocks, query, source) ==
  eachLoop(blocks, 1, MinOf(maxResults, Len(blocks)), query, source)

\* the loop over resultSelectors: foundResults is set once a row is pushed
RECURSIVE selectorLoop(_, _, _, _)
\* Mutant: the loop stops at the first selector that matches a block.
selectorNextOnMatch(page, s, query, source, here) ==
  IF page[s] # <<>> THEN here ELSE selectorLoop(page, s + 1, query, source)

\* after one selector, whose rows are `here`: break once foundResults is set
selectorNext(page, s, query, source, here) ==
  IF here # <<>> THEN here ELSE selectorLoop(page, s + 1, query, source)

selectorLoop(page, s, query, source) ==
  IF s > Len(resultSelectors) THEN <<>>
  ELSE selectorNext(page, s, query, source, selectorResults(page[s], query, source))

\* the list performDuckDuckGoSearch returns for a page that was fetched and
\* parsed
pageResults(page, query, source) == selectorLoop(page, 1, query, source)

\* ------------------------------------------------------------------------
\* Sample pages: the result blocks the search engine is taken to return
\* ------------------------------------------------------------------------
\* a block whose primary selectors all match
Block(title, href, snippet) ==
  [ titleText |-> title, titleHref |-> href, snippet |-> snippet,
    linkText |-> title, linkHref |-> href, text |-> title \o <<" ">> \o snippet ]

SampleBlock ==
  [ docsGuide |->
      Block(<<"R","e","d"," ","H","a","t"," ","G","u","i","d","e">>, <<"h","t","t","p","s",":","/","/","d","o","c","s",".","r","e","d","h","a","t",".","c","o","m","/","a">>, <<"I","n","s","t","a","l","l"," ","g","u","i","d","e">>),
    docsGuideDup |->
      Block(<<"r","e","d"," ","h","a","t"," "," ","g","u","i","d","e","!">>, <<"h","t","t","p","s",":","/","/","D","O","C","S",".","r","e","d","h","a","t",".","c","o","m","/","b">>, <<".",".",".","I","n","s","t","a","l","l"," ","g","u","i","d","e",".",".",".">>),
    mirrorGuide |->
      Block(<<"R","e","d"," ","H","a","t"," ","G","u","i","d","e">>, <<"h","t","t","p","s",":","/","/","e","x","a","m","p","l","e",".","c","o","m","/","x">>, <<"A"," ","m","i","r","r","o","r">>),
    tubeDemo |->
      Block(<<"O","p","e","n","S","h","i","f","t"," ","D","e","m","o">>, <<"h","t","t","p","s",":","/","/","w","w","w",".","y","o","u","t","u","b","e",".","c","o","m","/","w","a","t","c","h">>, <<"W","a","t","c","h">>),
    course |->
      Block(<<"A","n","s","i","b","l","e"," ","C","o","u","r","s","e">>, <<"h","t","t","p","s",":","/","/","r","e","d","h","a","t",".","c","o","m","/","t","r","a","i","n","i","n","g">>, <<"L","e","a","r","n">>),
    pdf |->
      Block(<<"R","H","E","L"," ","n","o","t","e","s">>, <<"h","t","t","p","s",":","/","/","e","x","a","m","p","l","e",".","c","o","m","/","n",".","p","d","f">>, <<"N","o","t","e","s">>),
    news |->
      Block(<<"F","e","d","o","r","a"," ","n","e","w","s">>, <<"h","t","t","p","s",":","/","/","e","x","a","m","p","l","e",".","c","o","m","/","n","e","w","s">>, <<"N","e","w","s">>),
    symbols |->
      Block(<<"&","&">>, <<"h","t","t","p","s",":","/","/","t","v",".","r","e","d","h","a","t",".","c","o","m","/","v">>, <<"C","l","i","p">>),
    blog |->
      Block(<<"Q","u","a","y"," ","b","l","o","g">>, <<"h","t","t","p","s",":","/","/","r","e","d","h","a","t",".","c","o","m","/","b","l","o","g">>, <<"P","o","s","t">>),
    noScheme |->
      Block(<<"R","H","E","L"," ","t","i","p","s">>, <<"e","x","a","m","p","l","e",".","c","o","m","/","t","i","p","s">>, <<"T","i","p","s">>),
    unrelated |->
      Block(<<"C","o","o","k","i","n","g">>, <<"h","t","t","p","s",":","/","/","e","x","a","m","p","l","e",".","c","o","m","/","f","o","o","d">>, <<"S","o","u","p">>),
    redirect |->
      Block(<<"R","e","d"," ","H","a","t"," ","K","B">>, <<"/","l","/","?","u","d","d","g","=","h","t","t","p","s","%","3","A","%","2","F","%","2","F","a","c","c","e","s","s",".","r","e","d","h","a","t",".","c","o","m","%","2","F","k","b","&","r","u","t","=","1">>, <<"A","n","s","w","e","r","s">>),
    badRedirect |->
      Block(<<"R","e","d"," ","H","a","t"," ","P","o","r","t","a","l">>, <<"/","l","/","?","u","d","d","g","=","h","t","t","p","s","%","3","A","%","2","F","%","2","F","r","e","d","h","a","t",".","c","o","m","%","2","F","%","z","z">>, <<"P","o","r","t","a","l">>),
    unknownHost |->
      Block(<<"R","e","d"," ","H","a","t"," ","w","i","k","i">>, <<"h","t","t","p",":","/","/","u","n","k","n","o","w","n","/","r","h">>, <<"I","n","t","r","a","n","e","t">>),
    ansibleDocs |->
      Block(<<"A","n","s","i","b","l","e"," ","d","o","c","s">>, <<"h","t","t","p","s",":","/","/","d","o","c","s",".","a","n","s","i","b","l","e",".","c","o","m","/","a">>, <<"P","l","a","y","b","o","o","k","s">>) ]

SampleBlocks == {SampleBlock[k] : k \in DOMAIN SampleBlock}

\* ------------------------------------------------------------------------
\* deduplicateResults as a function: inputs are lists of results that
\* performDuckDuckGoSearch can produce
\* ------------------------------------------------------------------------
MaxDedupLen == 3

\* the rows the sample blocks push, in lists of up to MaxDedupLen
DedupInputs ==
  UNION { [1..n -> { rows[1] : rows \in {eachBlock(b, <<"q">>, "Red Hat Docs") :
                                           b \in SampleBlocks} \ {<<>>} }] :
          n \in 0..MaxDedupLen }

\* ------------------------------------------------------------------------
\* extractTopics
\* ------------------------------------------------------------------------
\* Object.entries(topicKeywords), in insertion order
topicKeywords ==
  << [topic |-> <<"o","p","e","n","s","h","i","f","t">>,
      keywords |-> << <<"o","p","e","n","s","h","i","f","t">>, <<"k","u","b","e","r","n","e","t","e","s">>, <<"k","8","s">>, <<"c","o","n","t","a","i","n","e","r","s">>,
                      <<"o","r","c","h","e","s","t","r","a","t","i","o","n">>, <<"p","o","d","s">>, <<"d","e","p","l","o","y","m","e","n","t">> >>],
     [topic |-> <<"a","n","s","i","b","l","e">>,
      keywords |-> << <<"a","n","s","i","b","l","e">>, <<"a","u","t","o","m","a","t","i","o","n">>, <<"p","l","a","y","b","o","o","k">>,
                      <<"c","o","n","f","i","g","u","r","a","t","i","o","n"," ","m","a","n","a","g","e","m","e","n","t">>, <<"i","n","f","r","a","s","t","r","u","c","t","u","r","e"," ","a","s"," ","c","o","d","e">> >>],
     [topic |-> <<"r","h","e","l">>,
      keywords |-> << <<"r","h","e","l">>, <<"r","e","d"," ","h","a","t"," ","e","n","t","e","r","p","r","i","s","e"," ","l","i","n","u","x">>, <<"l","i","n","u","x">>,
                      <<"s","y","s","t","e","m"," ","a","d","m","i","n","i","s","t","r","a","t","i","o","n">>, <<"c","e","n","t","o","s">>, <<"f","e","d","o","r","a">> >>],
     [topic |-> <<"a","i">>,
      keywords |-> << <<"a","i">>, <<"a","r","t","i","f","i","c","i","a","l"," ","i","n","t","e","l","l","i","g","e","n","c","e">>, <<"m","a","c","h","i","n","e"," ","l","e","a","r","n","i","n","g">>,
                      <<"m","l">>, <<"d","a","t","a"," ","s","c","i","e","n","c","e">>, <<"n","e","u","r","a","l"," ","n","e","t","w","o","r","k","s">> >>],
     [topic |-> <<"c","l","o","u","d">>,
      keywords |-> << <<"c","l","o","u","d">>, <<"a","w","s">>, <<"a","z","u","r","e">>, <<"g","c","p">>, <<"h","y","b","r","i","d"," ","c","l","o","u","d">>,
                      <<"m","u","l","t","i","-","c","l","o","u","d">>, <<"c","l","o","u","d"," ","n","a","t","i","v","e">> >>],
     [topic |-> <<"s","e","c","u","r","i","t","y">>,
      keywords |-> << <<"s","e","c","u","r","i","t","y">>, <<"s","e","l","i","n","u","x">>, <<"c","o","m","p","l","i","a","n","c","e">>, <<"v","u","l","n","e","r","a","b","i","l","i","t","y">>,
                      <<"c","y","b","e","r","s","e","c","u","r","i","t","y">>, <<"e","n","c","r","y","p","t","i","o","n">> >>],
     [topic |-> <<"n","e","t","w","o","r","k","i","n","g">>,
      keywords |-> << <<"n","e","t","w","o","r","k","i","n","g">>, <<"n","e","t","w","o","r","k">>, <<"t","c","p">>, <<"i","p">>, <<"d","n","s">>,
                      <<"f","i","r","e","w","a","l","l">>, <<"l","o","a","d"," ","b","a","l","a","n","c","e","r">> >>],
     [topic |-> <<"s","t","o","r","a","g","e">>,
      keywords |-> << <<"s","t","o","r","a","g","e">>, <<"c","e","p","h">>, <<"g","l","u","s","t","e","r">>, <<"p","e","r","s","i","s","t","e","n","t"," ","v","o","l","u","m","e">>,
                      <<"b","l","o","c","k"," ","s","t","o","r","a","g","e">>, <<"o","b","j","e","c","t"," ","s","t","o","r","a","g","e">> >>],
     [topic |-> <<"m","o","n","i","t","o","r","i","n","g">>,
      keywords |-> << <<"m","o","n","i","t","o","r","i","n","g">>, <<"p","r","o","m","e","t","h","e","u","s">>, <<"g","r","a","f","a","n","a">>, <<"o","b","s","e","r","v","a","b","i","l","i","t","y">>,
                      <<"m","e","t","r","i","c","s">>, <<"a","l","e","r","t","i","n","g">> >>],
     [topic |-> <<"d","e","v","o","p","s">>,
      keywords |-> << <<"d","e","v","o","p","s">>, <<"c","i","/","c","d">>, <<"p","i","p","e","l","i","n","e">>, <<"d","e","p","l","o","y","m","e","n","t">>,
                      <<"c","o","n","t","i","n","u","o","u","s"," ","i","n","t","e","g","r","a","t","i","o","n">>, <<"g","i","t","o","p","s">> >>],
     [topic |-> <<"v","i","r","t","u","a","l","i","z","a","t","i","o","n">>,
      keywords |-> << <<"v","i","r","t","u","a","l","i","z","a","t","i","o","n">>, <<"v","m">>, <<"v","i","r","t","u","a","l"," ","m","a","c","h","i","n","e">>, <<"h","y","p","e","r","v","i","s","o","r">>,
                      <<"k","v","m">>, <<"q","e","m","u">> >>],
     [topic |-> <<"m","i","d","d","l","e","w","a","r","e">>,
      keywords |-> << <<"m","i","d","d","l","e","w","a","r","e">>, <<"j","b","o","s","s">>, <<"w","i","l","d","f","l","y">>, <<"a","p","a","c","h","e">>, <<"t","o","m","c","a","t">>,
                      <<"a","p","p","l","i","c","a","t","i","o","n"," ","s","e","r","v","e","r">> >>] >>

topicStopwords ==
  { <<"w","a","n","t">>, <<"l","e","a","r","n">>, <<"n","e","e","d">>, <<"h","e","l","p">>, <<"w","i","t","h">>, <<"a","b","o","u","t">>, <<"f","r","o","m">>,
    <<"t","h","a","t">>, <<"t","h","i","s">>, <<"t","h","e","y">>, <<"h","a","v","e">>, <<"w","i","l","l">>, <<"b","e","e","n">> }

MinWordLen == 3
MaxFallbackWords == 3

\* input.split(/\s+/) without the empty strings (which the length filter
\* drops): the maximal runs of non-whitespace, in order
splitWords(s) ==
  LET starts == SelectSeq([i \in 1..Len(s) |-> i],
                          LAMBDA i : ~IsSpace(s[i]) /\ (i = 1 \/ IsSpace(s[i - 1])))
      endOf(i) == SetMin({j \in i..Len(s) : j = Len(s) \/ IsSpace(s[j + 1])})
  IN  Written([k \in 1..Len(starts) |-> SubSeq(s, starts[k], endOf(starts[k]))])

\* [...new Set(seq)]: first occurrences, in order
uniqueInOrder(seq) ==
  LET firsts == SelectSeq([i \in 1..Len(seq) |-> i],
                          LAMBDA i : \A j \in 1..(i - 1) : seq[j] # seq[i])
  IN  Written([k \in 1..Len(firsts) |-> seq[firsts[k]]])

\* Mutant: the keywords are looked for in the input as typed.
extractTopicsCaseSensitive(userInput) ==
  LET matched == SelectSeq(topicKeywords,
                   LAMBDA e : \E k \in 1..Len(e.keywords) : includes(userInput, e.keywords[k]))
      found == Written([k \in 1..Len(matched) |-> matched[k].topic])
      words == SelectSeq(splitWords(toLowerCase(userInput)),
                 LAMBDA w : Len(w) > MinWordLen /\ w \notin topicStopwords)
  IN  uniqueInOrder(IF found = <<>>
                      THEN SubSeq(words, 1, MinOf(MaxFallbackWords, Len(words)))
                      ELSE found)

\* Mutant: the fallback returns every remaining word.
extractTopicsEveryWord(userInput) ==
  LET input == toLowerCase(userInput)
      matched == SelectSeq(topicKeywords,
                   LAMBDA e : \E k \in 1..Len(e.keywords) : includes(input, e.keywords[k]))
      found == Written([k \in 1..Len(matched) |-> matched[k].topic])
      words == SelectSeq(splitWords(input),
                 LAMBDA w : Len(w) > MinWordLen /\ w \notin topicStopwords)
  IN  uniqueInOrder(IF found = <<>> THEN words ELSE found)

\* Mutant: the remaining words are made distinct before the first three are
\* taken.
extractTopicsDistinctFirst(userInput) ==
  LET input == toLowerCase(userInput)
      matched == SelectSeq(topicKeywords,
                   LAMBDA e : \E k \in 1..Len(e.keywords) : includes(input, e.keywords[k]))
      found == Written([k \in 1..Len(matched) |-> matched[k].topic])
      words == uniqueInOrder(SelectSeq(splitWords(input),
                 LAMBDA w : Len(w) > MinWordLen /\ w \notin topicStopwords))
  IN  IF found = <<>>
        THEN SubSeq(words, 1, MinOf(MaxFallbackWords, Len(words)))
        ELSE uniqueInOrder(found)

extractTopics(userInput) ==
  LET input == toLowerCase(userInput)
      matched == SelectSeq(topicKeywords,
                   LAMBDA e : \E k \in 1..Len(e.keywords) : includes(input, e.keywords[k]))
      found == Written([k \in 1..Len(matched) |-> matched[k].topic])
      words == SelectSeq(splitWords(input),
                 LAMBDA w : Len(w) > MinWordLen /\ w \notin topicStopwords)
  IN  uniqueInOrder(IF found = <<>>
                      THEN SubSeq(words, 1, MinOf(MaxFallbackWords, Len(words)))
                      ELSE found)

\* Array.prototype.join(sep) over strings
RECURSIVE join(_, _)
join(items, sep) ==
  IF items = <<>> THEN <<>>
  ELSE IF Len(items) = 1 THEN items[1]
  ELSE items[1] \o sep \o join(Tail(items), sep)

\* ------------------------------------------------------------------------
\* Request schemas (validation.js).  A JSON value of a request body is
\* tagged with its type; s is a string's characters, a an array's items.
\* ------------------------------------------------------------------------
Str(s) == [t |-> "string", s |-> s, a |-> <<>>]
Arr(items) == [t |-> "array", s |-> <<>>, a |-> items]
Num == [t |-> "number", s |-> <<>>, a |-> <<>>]
Absent == [t |-> "absent", s |-> <<>>, a |-> <<>>]

\* Joi.string().trim().min(lo).max(hi), with .allow('') when allowEmpty: the
\* value is trimmed first (convert), then tested
joiStringOk(v, lo, hi, allowEmpty) ==
  /\ v.t = "string"
  /\ IF trim(v.s) = <<>> THEN allowEmpty
     ELSE Len(trim(v.s)) >= lo /\ Len(trim(v.s)) <= hi

\* Joi.array().items(<string rule>).min(lo).max(hi)
joiArrayOk(v, lo, hi, itemLo, itemHi) ==
  /\ v.t = "array"
  /\ Len(v.a) >= lo
  /\ Len(v.a) <= hi
  /\ \A i \in 1..Len(v.a) : joiStringOk(v.a[i], itemLo, itemHi, FALSE)

\* Mutant: the schema with the interests limit off by one.
learningPathSchemaOkLoose(body) ==
  /\ joiArrayOk(body.interests, 1, 21, 1, 200)
  /\ joiStringOk(body.experience, 1, 100, FALSE)
  /\ joiArrayOk(body.goals, 1, 10, 1, 300)
  /\ joiStringOk(body.timeCommitment, 1, 100, FALSE)
  /\ joiStringOk(body.preferredLearningStyle, 1, 100, FALSE)
  /\ body.currentRole.t = "absent" \/ joiStringOk(body.currentRole, 0, 100, TRUE)
  /\ body.industryFocus.t = "absent" \/ joiStringOk(body.industryFocus, 0, 100, TRUE)
  /\ body.certificationGoals.t = "absent" \/ joiArrayOk(body.certificationGoals, 0, 5, 0, 100)
  /\ body.additionalContext.t = "absent" \/ joiStringOk(body.additionalContext, 0, 500, TRUE)

\* Mutant: the schema with the README's limits of 10 interests and 5 goals.
learningPathSchemaOkReadme(body) ==
  /\ joiArrayOk(body.interests, 1, 10, 1, 200)
  /\ joiStringOk(body.experience, 1, 100, FALSE)
  /\ joiArrayOk(body.goals, 1, 5, 1, 300)
  /\ joiStringOk(body.timeCommitment, 1, 100, FALSE)
  /\ joiStringOk(body.preferredLearningStyle, 1, 100, FALSE)
  /\ body.currentRole.t = "absent" \/ joiStringOk(body.currentRole, 0, 100, TRUE)
  /\ body.industryFocus.t = "absent" \/ joiStringOk(body.industryFocus, 0, 100, TRUE)
  /\ body.certificationGoals.t = "absent" \/ joiArrayOk(body.certificationGoals, 0, 5, 0, 100)
  /\ body.additionalContext.t = "absent" \/ joiStringOk(body.additionalContext, 0, 500, TRUE)

\* learningPathRequestSchema: no error is reported
learningPathSchemaOk(body) ==
  /\ joiArrayOk(body.interests, 1, 20, 1, 200)
  /\ joiStringOk(body.experience, 1, 100, FALSE)
  /\ joiArrayOk(body.goals, 1, 10, 1, 300)
  /\ joiStringOk(body.timeCommitment, 1, 100, FALSE)
  /\ joiStringOk(body.preferredLearningStyle, 1, 100, FALSE)
  /\ body.currentRole.t = "absent" \/ joiStringOk(body.currentRole, 0, 100, TRUE)
  /\ body.industryFocus.t = "absent" \/ joiStringOk(body.industryFocus, 0, 100, TRUE)
  /\ body.certificationGoals.t = "absent" \/ joiArrayOk(body.certificationGoals, 0, 5, 0, 100)
  /\ body.additionalContext.t = "absent" \/ joiStringOk(body.additionalContext, 0, 500, TRUE)

\* the converted value of an array of strings: its items, trimmed
trimmedItems(v) == Written([i \in 1..Len(v.a) |-> trim(v.a[i].s)])

validateLearningPathRequest(body) ==
  IF learningPathSchemaOk(body)
    THEN [ isValid |-> TRUE,
           data |-> [ interests |-> trimmedItems(body.interests),
                      experience |-> trim(body.experience.s),
                      goals |-> trimmedItems(body.goals),
                      timeCommitment |-> trim(body.timeCommitment.s),
                      preferredLearningStyle |-> trim(body.preferredLearningStyle.s) ] ]
    ELSE [ isValid |-> FALSE,
           data |-> [ interests |-> <<>>, experience |-> <<>>, goals |-> <<>>,
                      timeCommitment |-> <<>>, preferredLearningStyle |-> <<>> ] ]

SourceNames == { <<"t","v">>, <<"d","o","c","u","m","e","n","t","a","t","i","o","n">>, <<"t","r","a","i","n","i","n","g">>, <<"a","l","l">> }

\* searchRequestSchema: no error is reported
searchSchemaOk(body) ==
  /\ joiArrayOk(body.topics, 1, 10, 1, 100)
  /\ \/ body.sources.t = "absent"
     \/ /\ body.sources.t = "array"
        /\ \A i \in 1..Len(body.sources.a) :
             body.sources.a[i].t = "string" /\ body.sources.a[i].s \in SourceNames

validateSearchRequest(body) ==
  IF searchSchemaOk(body)
    THEN [ isValid |-> TRUE,
           data |-> [ topics |-> trimmedItems(body.topics),
                      sources |-> IF body.sources.t = "absent" THEN << <<"a","l","l">> >>
                                  ELSE [i \in 1..Len(body.sources.a) |-> body.sources.a[i].s] ] ]
    ELSE [ isValid |-> FALSE, data |-> [topics |-> <<>>, sources |-> <<>>] ]

\* ------------------------------------------------------------------------
\* LLMService (llmService.js)
\* ------------------------------------------------------------------------
OllamaModel == "llama3.2:latest"

\* what ollama.list() may answer: a failure, or the installed models
ListOutcomes ==
  {[ok |-> FALSE, models |-> {}, error |-> "connect ECONNREFUSED"]} \cup
  {[ok |-> TRUE, models |-> ms, error |-> "none"] : ms \in SUBSET {"llama3.2:latest", "llama3.2"}}

\* Mutant: a listed name counts when it names the model's family, whatever
\* its tag.
checkOllamaHealthAnyTag(list) ==
  IF ~list.ok THEN [healthy |-> FALSE, error |-> list.error]
  ELSE IF list.models = {}
    THEN [healthy |-> FALSE, error |-> "Model llama3.2:latest not found"]
  ELSE [healthy |-> TRUE, error |-> "none"]

checkOllamaHealth(list) ==
  IF ~list.ok THEN [healthy |-> FALSE, error |-> list.error]
  ELSE IF OllamaModel \notin list.models
    THEN [healthy |-> FALSE, error |-> "Model llama3.2:latest not found"]
  ELSE [healthy |-> TRUE, error |-> "none"]

\* The model's reply is a sequence of lexemes: braces, a complete object
\* member ("title": "...", "phases": [...], each followed by its comma where
\* one is due), a bare JSON literal (null as "literal:null"; a number, a
\* string or a boolean as "literal"),
\* or prose without braces. The member "phases:list" is written
\* "phases": [{...}]: its list holds one phase object, braces included.
TitleMembers == {"title:text", "title:empty"}
PhasesMembers == {"phases:list", "phases:emptylist", "phases:string", "phases:null"}
TextTokens == {"{", "}", "prose", "literal", "literal:null"} \cup (TitleMembers \cup PhasesMembers)

\* the text as the regular expression reads it: the braces of a phase object
\* inside a phases list are braces of the text
RECURSIVE pieces(_)
pieces(text) ==
  IF text = <<>> THEN <<>>
  ELSE (IF Head(text) = "phases:list" THEN <<"phases:[", "{phase}", "]">>
        ELSE <<Head(text)>>) \o pieces(Tail(text))

\* response.match(/\{[\s\S]*\}/): from the first '{' to the last '}'
jsonMatch(text) ==
  LET s == pieces(text)
      opens == {i \in 1..Len(s) : s[i] \in {"{", "{phase}"}}
      closes == {i \in 1..Len(s) : s[i] \in {"}", "{phase}"}}
  IN  IF opens # {} /\ closes # {} /\ SetMin(opens) <= SetMax(closes)
        THEN SubSeq(s, SetMin(opens), SetMax(closes))
        ELSE NoValue

cleanResponse(text) == IF jsonMatch(text) # NoValue THEN jsonMatch(text) ELSE pieces(text)

\* JSON.parse: an object is '{', members, '}', or a phase object of a list
\* on its own; a bare literal parses to a value that is no object; anything
\* else is a SyntaxError
IsJsonObject(s) ==
  \/ s = <<"{phase}">>
  \/ /\ Len(s) >= 2
     /\ s[1] = "{"
     /\ s[Len(s)] = "}"
     /\ \A i \in 2..(Len(s) - 1) :
          \/ s[i] \in (TitleMembers \cup PhasesMembers) \ {"phases:list"}
          \/ s[i] = "phases:[" /\ i + 2 <= Len(s) - 1
                               /\ s[i + 1] = "{phase}" /\ s[i + 2] = "]"
          \/ s[i] = "{phase}" /\ i - 1 >= 2 /\ i + 1 <= Len(s) - 1
                              /\ s[i - 1] = "phases:[" /\ s[i + 1] = "]"
          \/ s[i] = "]" /\ i - 2 >= 2
                        /\ s[i - 2] = "phases:[" /\ s[i - 1] = "{phase}"

\* the value of a key in the parsed object: the last member of that key
\* wins; a phase object has a title and no phases
memberValue(s, Members) ==
  LET named(i) == IF s[i] = "phases:[" THEN "phases:list" ELSE s[i]
      at == {i \in 1..Len(s) : named(i) \in Members}
  IN  IF s = <<"{phase}">>
        THEN (IF "title:text" \in Members THEN "title:text" ELSE "undefined")
      ELSE IF at = {} THEN "undefined" ELSE named(SetMax(at))

\* Mutant: the structure test asks for the keys, whatever their values.
memberPresent(v) == v # "undefined"

\* !parsed.title, !parsed.phases: '' and null are falsy, [] and a string are not
TruthyMember(v) == v \in {"title:text", "phases:list", "phases:emptylist", "phases:string"}

FoundationPhase ==
  [ phase |-> 1, title |-> "Foundation Phase", difficulty |-> "Beginner",
    resources |-> <<>> ]

ModelPhase ==
  [ phase |-> 1, title |-> "model phase", difficulty |-> "Beginner",
    resources |-> <<"model resource">> ]

\* Mutant: a fallback that forgets the raw model text.
fallbackWithoutRaw(response, message) ==
  [ origin |-> "fallback",
    title |-> "Custom Red Hat Learning Path",
    phasesKind |-> "list",
    phases |-> <<FoundationPhase>>,
    recommended |-> <<"Red Hat Certified System Administrator (RHCSA)">>,
    rawResponse |-> NoValue,
    parseError |-> message ]

\* the structured fallback response of the catch block
fallbackLearningPath(response, message) ==
  [ origin |-> "fallback",
    title |-> "Custom Red Hat Learning Path",
    phasesKind |-> "list",
    phases |-> <<FoundationPhase>>,
    recommended |-> <<"Red Hat Certified System Administrator (RHCSA)">>,
    rawResponse |-> response,
    parseError |-> message ]

\* the model's own object, as far as the handlers look at it
parsedLearningPath(s) ==
  [ origin |-> "model",
    title |-> "model title",
    phasesKind |-> memberValue(s, PhasesMembers),
    phases |-> IF memberValue(s, PhasesMembers) = "phases:list" THEN <<ModelPhase>> ELSE <<>>,
    recommended |-> <<>>,
    rawResponse |-> NoValue,
    parseError |-> "none" ]

\* response is the reply's text, or NoValue or Undefined when the reply
\* carries none: response.trim() throws inside the try block
parseLearningPathResponse(response) ==
  IF response = NoValue
    THEN fallbackLearningPath(response, "Cannot read properties of null (reading 'trim')")
  ELSE IF response = Undefined
    THEN fallbackLearningPath(response, "Cannot read properties of undefined (reading 'trim')")
  ELSE IF cleanResponse(response) = <<"literal:null">>
    THEN fallbackLearningPath(response, "Cannot read properties of null (reading 'title')")
  ELSE IF cleanResponse(response) = <<"literal">>
    THEN fallbackLearningPath(response, "Invalid learning path structure")
  ELSE IF ~IsJsonObject(cleanResponse(response))
    THEN fallbackLearningPath(response, "Unexpected token in JSON")
  ELSE IF \/ ~TruthyMember(memberValue(cleanResponse(response), TitleMembers))
          \/ ~TruthyMember(memberValue(cleanResponse(response), PhasesMembers))
    THEN fallbackLearningPath(response, "Invalid learning path structure")
  ELSE parsedLearningPath(cleanResponse(response))

\* errors carry a message chain, outermost first; status 0 means none is set
ErrorOf(name, message) == [name |-> name, message |-> message, status |-> 0]

\* Mutant: a catch block that swallows the error and returns the fallback.
glpCatchSwallow(message) ==
  [kind |-> "return",
   value |-> fallbackLearningPath(NoValue, message[1]),
   error |-> ErrorOf("none", <<>>)]

\* Mutant: a catch block that rethrows without the cause's message.
glpCatchNoCause(message) ==
  [kind |-> "throw",
   value |-> fallbackLearningPath(NoValue, "none"),
   error |-> ErrorOf("Error", <<"Failed to generate learning path">>)]

\* the catch block of generateLearningPath: log and rethrow, wrapped
glpCatch(message) ==
  [kind |-> "throw",
   value |-> fallbackLearningPath(NoValue, "none"),
   error |-> ErrorOf("Error", <<"Failed to generate learning path">> \o message)]

glpReturn(learningPath) ==
  [kind |-> "return", value |-> learningPath, error |-> ErrorOf("none", <<>>)]

glpPending ==
  [kind |-> "pending", value |-> fallbackLearningPath(NoValue, "none"),
   error |-> ErrorOf("none", <<>>)]

\* an entry of the handler's history; text is the model's reply where there is one
Event(ev, by, ok, detail, text) ==
  [ev |-> ev, by |-> by, ok |-> ok, detail |-> detail, text |-> text]

\* The user prompt is modelled line by line: a line has a label, a number
\* (the resource's index, else 0) and its text.
PromptLine(label, n, text) == [label |-> label, n |-> n, text |-> text]

\* the lines written for one resource; extras are the Level and Duration
\* lines, 'N/A' as the search results carry neither field
RECURSIVE promptResources(_, _, _)
promptResources(list, index, extras) ==
  IF index > Len(list) THEN <<>>
  ELSE << PromptLine("item", index, list[index].title),
          PromptLine("URL", 0, list[index].url) >> \o
       [k \in 1..Len(extras) |-> PromptLine(extras[k], 0, <<"N","/","A">>)] \o
       << PromptLine("Description", 0, list[index].description) >> \o
       promptResources(list, index + 1, extras)

\* a category's part of the prompt: nothing for an empty or missing list
promptCategory(heading, list, extras) ==
  IF list = <<>> THEN <<>>
  ELSE << PromptLine("heading", 0, heading) >> \o promptResources(list, 1, extras)

buildUserPrompt(userProfile, searchResults) ==
  << PromptLine("Interests", 0, join(userProfile.interests, <<","," ">>)),
     PromptLine("Experience Level", 0, userProfile.experience),
     PromptLine("Learning Goals", 0, join(userProfile.goals, <<","," ">>)),
     PromptLine("Available Time Commitment", 0, userProfile.timeCommitment),
     PromptLine("Preferred Learning Style", 0, userProfile.preferredLearningStyle),
     PromptLine("content", 0, <<"A","V","A","I","L","A","B","L","E"," ","R","E","D"," ","H","A","T"," ","C","O","N","T","E","N","T",":">>) >> \o
  promptCategory(<<"R","E","D"," ","H","A","T"," ","T","V"," ","V","I","D","E","O","S",":">>, searchResults.tv, <<"Duration">>) \o
  promptCategory(<<"R","E","D"," ","H","A","T"," ","D","O","C","U","M","E","N","T","A","T","I","O","N",":">>, searchResults.documentation, <<>>) \o
  promptCategory(<<"R","E","D"," ","H","A","T"," ","T","R","A","I","N","I","N","G"," ","C","O","U","R","S","E","S",":">>, searchResults.training,
                 <<"Level", "Duration">>) \o
  << PromptLine("instructions", 0, <<"P","l","e","a","s","e"," ","c","r","e","a","t","e"," ","a"," ","c","o","m","p","r","e","h","e","n","s","i","v","e",","," ","s","t","r","u","c","t","u","r","e","d"," ","l","e","a","r","n","i","n","g"," ","p","a","t","h">>) >>

\* generateLearningPath up to its await of ollama.generate: the health check
\* and, when healthy, the prompt that is sent
GLP_CheckHealth ==
  /\ pc = "glp_health"
  /\ \E list \in ListOutcomes :
       LET healthCheck == checkOllamaHealth(list)
       IN  /\ events' =
                Append(events, Event("list", "generateLearningPath",
                                     healthCheck.healthy, healthCheck.error, NoValue)) \o
                (IF healthCheck.healthy
                   THEN << Event("prompt", "generateLearningPath", TRUE, "none",
                                 buildUserPrompt(validateLearningPathRequest(req.body).data,
                                                 sr)) >>
                   ELSE <<>>)
           /\ IF healthCheck.healthy
                THEN /\ pc' = "glp_generate"
                     /\ glp' = glp
                ELSE /\ pc' = "glp_done"
                     /\ glp' = glpCatch(<<"Ollama service unavailable", healthCheck.error>>)
  /\ UNCHANGED <<req, llmService, topics, cat, sr, resp, dedupVars, fnVars, concVars>>

\* ollama.generate answers (or fails), and the answer is parsed
GLP_Generate(Texts) ==
  /\ pc = "glp_generate"
  /\ \/ /\ events' = Append(events, Event("generate", "generateLearningPath", FALSE,
                                          "fetch failed", NoValue))
        /\ glp' = glpCatch(<<"fetch failed">>)
     \/ \E text \in Texts :
          /\ events' = Append(events, Event("generate", "generateLearningPath", TRUE, "none", text))
          /\ glp' = glpReturn(parseLearningPathResponse(text))
  /\ pc' = "glp_done"
  /\ UNCHANGED <<req, llmService, topics, cat, sr, resp, dedupVars, fnVars, concVars>>

\* ------------------------------------------------------------------------
\* Request bodies the model sends
\* ------------------------------------------------------------------------
MaxTopics == 2

Times(n, v) == [i \in 1..n |-> v]

BaseProfile ==
  [ interests |-> Arr(<<Str(<<"O","p","e","n","S","h","i","f","t">>)>>),
    experience |-> Str(<<"b","e","g","i","n","n","e","r">>),
    goals |-> Arr(<<Str(<<"l","e","a","r","n"," ","K","u","b","e","r","n","e","t","e","s">>)>>),
    timeCommitment |-> Str(<<"3","-","5"," ","h","o","u","r","s","/","w","e","e","k">>),
    preferredLearningStyle |-> Str(<<"m","i","x","e","d">>),
    currentRole |-> Absent,
    industryFocus |-> Absent,
    certificationGoals |-> Absent,
    additionalContext |-> Absent ]

GenerateBodies ==
  { [BaseProfile EXCEPT !.interests = Arr(<<Str(<<" ","A","n","s","i","b","l","e"," ">>)>>),
                        !.goals = Arr(<<Str(<<"g","e","t"," ","c","e","r","t","i","f","i","e","d">>)>>)] }
  \cup
  { [BaseProfile EXCEPT !.interests = v] :
      v \in { Absent, Num, Arr(<<>>), Arr(<<Str(<<>>)>>), Arr(<<Str(<<" "," ">>)>>),
              Arr(<<Num>>), Arr(<<Str(Times(200, "x"))>>), Arr(<<Str(Times(201, "x"))>>),
              Arr(<<Str(Times(200, "x") \o <<" ">>)>>),
              Arr(Times(20, Str(<<"O","p","e","n","S","h","i","f","t">>))), Arr(Times(21, Str(<<"O","p","e","n","S","h","i","f","t">>))) } }
  \cup
  { [BaseProfile EXCEPT !.goals = v] :
      v \in { Absent, Arr(<<>>), Arr(Times(10, Str(<<"p","o","d","s">>))), Arr(Times(11, Str(<<"p","o","d","s">>))),
              Arr(<<Str(Times(300, "x"))>>), Arr(<<Str(Times(301, "x"))>>) } }
  \cup
  { [BaseProfile EXCEPT !.experience = v] :
      v \in { Absent, Num, Str(<<>>), Str(Times(100, "x")), Str(Times(101, "x")) } }
  \cup
  { [BaseProfile EXCEPT !.timeCommitment = v] : v \in { Absent, Str(Times(101, "x")) } }
  \cup
  { [BaseProfile EXCEPT !.preferredLearningStyle = v] : v \in { Absent, Str(<<" "," ">>) } }
  \cup
  { [BaseProfile EXCEPT !.currentRole = v] : v \in { Str(<<>>), Str(Times(100, "x")), Str(Times(101, "x")) } }
  \cup
  { [BaseProfile EXCEPT !.industryFocus = v] : v \in { Str(Times(101, "x")) } }
  \cup
  { [BaseProfile EXCEPT !.certificationGoals = v] :
      v \in { Arr(Times(5, Str(<<"R","H","C","S","A">>))), Arr(Times(6, Str(<<"R","H","C","S","A">>))) } }
  \cup
  { [BaseProfile EXCEPT !.additionalContext = v] : v \in { Str(Times(500, "x")), Str(Times(501, "x")) } }

TopicPool == << Str(<<"a","n","s","i","b","l","e">>), Str(<<" ","O","p","e","n","S","h","i","f","t">>), Str(<<"r","h","e","l">>), Str(<<"c","e","p","h">>) >>

SourceLists ==
  { Absent, Num, Arr(<<>>), Arr(<<Str(<<"a","l","l">>)>>), Arr(<<Str(<<"d","o","c","u","m","e","n","t","a","t","i","o","n">>)>>),
    Arr(<<Str(<<"t","r","a","i","n","i","n","g">>)>>), Arr(<<Str(<<"d","o","c","u","m","e","n","t","a","t","i","o","n">>), Str(<<"t","r","a","i","n","i","n","g">>)>>),
    Arr(<<Str(<<"t","v">>)>>), Arr(<<Str(<<"t","v">>), Str(<<"a","l","l">>)>>),
    Arr(<<Str(<<"t","v">>), Str(<<"d","o","c","u","m","e","n","t","a","t","i","o","n">>)>>), Arr(<<Str(<<"v","i","d","e","o","s">>)>>) }

SearchBodies ==
  { [topics |-> Arr(SubSeq(TopicPool, 1, 1)), sources |-> s] : s \in SourceLists }
  \cup
  { [topics |-> Arr(SubSeq(TopicPool, 1, 2)), sources |-> Arr(<<Str(<<"a","l","l">>)>>)] }
  \cup
  { [topics |-> Arr(SubSeq(TopicPool, 1, n)),
     sources |-> Arr(<<Str(<<"d","o","c","u","m","e","n","t","a","t","i","o","n">>), Str(<<"t","r","a","i","n","i","n","g">>)>>)] : n \in 2..MaxTopics }
  \cup
  { [topics |-> v, sources |-> Arr(<<>>)] :
      v \in { Absent, Num, Arr(<<>>), Arr(<<Str(<<>>)>>), Arr(<<Str(Times(100, "x"))>>),
              Arr(<<Str(Times(101, "x"))>>), Arr(Times(10, Str(<<"q","u","a","y">>))),
              Arr(Times(11, Str(<<"q","u","a","y">>))) } }

\* ------------------------------------------------------------------------
\* Category searches: searchRedHatDocs, searchRedHatTraining,
\* searchRedHatVideos
\* ------------------------------------------------------------------------
Categories == {"documentation", "training", "videos"}

DQ == <<"\"">>

\* the queries built for one topic
queriesFor(c, topic) ==
  CASE c = "documentation" ->
         << DQ \o <<"R","e","d"," ","H","a","t">> \o DQ \o <<" ">> \o DQ \o topic \o DQ \o <<" ","d","o","c","u","m","e","n","t","a","t","i","o","n">> >>
    [] c = "training" ->
         << DQ \o <<"R","e","d"," ","H","a","t"," ","t","r","a","i","n","i","n","g">> \o DQ \o <<" ">> \o DQ \o topic \o DQ,
            DQ \o <<"R","e","d"," ","H","a","t"," ","c","e","r","t","i","f","i","c","a","t","i","o","n">> \o DQ \o <<" ">> \o DQ \o topic \o DQ >>
    [] c = "videos" ->
         << <<"s","i","t","e",":","t","v",".","r","e","d","h","a","t",".","c","o","m"," ">> \o DQ \o topic \o DQ >>

sourceLabel(c) ==
  CASE c = "documentation" -> "Red Hat Docs"
    [] c = "training" -> "Red Hat Training"
    [] c = "videos" -> "Red Hat Videos"

\* the page the search engine serves for a category's queries: per result
\* selector, the blocks it matches
WebPage(c) ==
  CASE c = "documentation" ->
         << << SampleBlock.docsGuide, SampleBlock.unrelated, SampleBlock.docsGuideDup,
               SampleBlock.blog, SampleBlock.badRedirect, SampleBlock.redirect >>, <<>>, <<>> >>
    [] c = "training" ->
         << << SampleBlock.course, SampleBlock.docsGuide, SampleBlock.noScheme,
               SampleBlock.unknownHost >>, <<>>, <<>> >>
    [] c = "videos" ->
         << <<SampleBlock.unrelated>>, <<SampleBlock.symbols, SampleBlock.tubeDemo>>, <<SampleBlock.news>> >>

\* how a fetch ends: the request or the parsing throws, or the page is read
FetchOutcomes == {"fail", "page"}

\* what performDuckDuckGoSearch returns: its catch block returns nothing
performDuckDuckGoSearch(outcome, c, query) ==
  IF outcome = "fail"
    THEN [defined |-> FALSE, list |-> <<>>]
    ELSE [defined |-> TRUE, list |-> pageResults(WebPage(c), query, sourceLabel(c))]

CatIdle ==
  [status |-> "idle", wait |-> "delay", ti |-> 1, qi |-> 1, searchResults |-> <<>>,
   issued |-> {}, failed |-> {}, value |-> <<>>]

\* the state of a category search once it stands at topic ti, query qi: past
\* the last topic it returns the deduplicated list, else it calls
\* performDuckDuckGoSearch, which waits for its delay first.  issued and
\* failed are the <<topic, query>> positions whose GET was sent so far and
\* those whose fetch failed
catAt(ti, qi, searchResults, issued, failed, ts) ==
  IF ti > Len(ts)
    THEN [status |-> "fulfilled", wait |-> "delay", ti |-> ti, qi |-> 1,
          searchResults |-> searchResults, issued |-> issued, failed |-> failed,
          value |-> deduplicateResults(searchResults)]
    ELSE [status |-> "running", wait |-> "delay", ti |-> ti, qi |-> qi,
          searchResults |-> searchResults, issued |-> issued, failed |-> failed,
          value |-> <<>>]

\* await this.delay(...) is over: the GET of the query is sent
afterDelay(s) == [s EXCEPT !.wait = "get", !.issued = @ \cup {<<s.ti, s.qi>>}]

\* the call of a category search, up to its first await
startCategory(ts) == catAt(1, 1, <<>>, {}, {}, ts)

\* the GET is answered and the inner loop takes its turn:
\* searchResults.push(...results) throws on an undefined results, and the
\* topic's catch block moves on to the next topic
afterQuery(c, s, results, ts) ==
  IF ~results.defined
    THEN catAt(s.ti + 1, 1, s.searchResults, s.issued, s.failed \cup {<<s.ti, s.qi>>}, ts)
  ELSE IF s.qi < Len(queriesFor(c, ts[s.ti]))
    THEN catAt(s.ti, s.qi + 1, s.searchResults \o results.list, s.issued, s.failed, ts)
  ELSE catAt(s.ti + 1, 1, s.searchResults \o results.list, s.issued, s.failed, ts)

\* which category searches are in flight at a handler position
Running(c) ==
  \/ pc = "searching"
  \/ pc = "seq_documentation" /\ c = "documentation"
  \/ pc = "seq_training" /\ c = "training"

\* the delay of a query is over (line 155) and its GET is sent (line 160)
CategoryDelay(c) ==
  /\ Running(c)
  /\ cat[c].status = "running"
  /\ cat[c].wait = "delay"
  /\ cat' = [cat EXCEPT ![c] = afterDelay(cat[c])]
  /\ UNCHANGED <<pc, req, llmService, events, topics, sr, glp, resp, dedupVars, fnVars, concVars>>

\* the GET of a query is answered, or fails
CategoryQuery(c) ==
  /\ Running(c)
  /\ cat[c].status = "running"
  /\ cat[c].wait = "get"
  /\ \E outcome \in FetchOutcomes :
       cat' = [cat EXCEPT ![c] =
                 afterQuery(c, cat[c],
                            performDuckDuckGoSearch(outcome, c,
                              queriesFor(c, topics[cat[c].ti])[cat[c].qi]),
                            topics)]
  /\ UNCHANGED <<pc, req, llmService, events, topics, sr, glp, resp, dedupVars, fnVars, concVars>>

\* ------------------------------------------------------------------------
\* searchAllSources
\* ------------------------------------------------------------------------
\* the searchResults object: keys lists the properties that are set
SearchResults(keys, documentation, training, videos, tv, all) ==
  [keys |-> keys, documentation |-> documentation, training |-> training,
   videos |-> videos, tv |-> tv, all |-> all]

NoSearchResults == SearchResults({}, <<>>, <<>>, <<>>, <<>>, <<>>)

\* Mutant: the join fires as soon as one search has settled.
anySettled(cs) == \E c \in Categories : cs[c].status = "fulfilled"

\* Mutant: the join does not wait for the searches.
joinAtOnce(cs) == TRUE

\* Promise.allSettled: every category search has settled
allSettled(cs) == \A c \in Categories : cs[c].status = "fulfilled"

\* result.status === 'fulfilled' ? result.value : []
settledValue(s) == IF s.status = "fulfilled" THEN s.value ELSE <<>>

\* allResults, deduplicated
combineAll(documentation, training, videos) ==
  deduplicateResults(documentation \o training \o videos)

searchAllSources(cs) ==
  SearchResults({"documentation", "training", "videos", "all"},
                settledValue(cs["documentation"]), settledValue(cs["training"]),
                settledValue(cs["videos"]), <<>>,
                combineAll(settledValue(cs["documentation"]), settledValue(cs["training"]),
                           settledValue(cs["videos"])))

\* ------------------------------------------------------------------------
\* Routes (routes/learningPath.js)
\* ------------------------------------------------------------------------
\* the error middleware the routes hand errors to with next(error)
\* (middleware/errorHandler.js), as the specification's error handling has
\* it: an error that carries a status is answered with it, an error of the
\* model being unavailable 503, any other error 500.  Such an error tells by
\* its message: the one generateLearningPath throws after an unhealthy health
\* check, or the one of a request that did not reach the endpoint
errorHandlerStatus(error) ==
  LET modelUnavailable == {"Ollama service unavailable", "fetch failed"}
  IN  IF error.status > 0 THEN error.status
      ELSE IF \E i \in 1..Len(error.message) : error.message[i] \in modelUnavailable
        THEN 503
      ELSE 500

\* a payload without metadata
NoMetadata == [none |-> TRUE]

\* a response: keys are the keys of the payload handed to res.json; a key
\* that is not among them is not sent, and its field here holds nothing
Response(status, via, error, keys, learningPath, results, metadata) ==
  [status |-> status, via |-> via, error |-> error, keys |-> keys,
   learningPath |-> learningPath, results |-> results, metadata |-> metadata]

NoResponse ==
  Response(0, "none", ErrorOf("none", <<>>), {}, glpPending.value, NoSearchResults, NoMetadata)

\* the keys of the payloads of the early answers: 400 {error, details},
\* 500 {error}, 503 {error, details, suggestion}
errorKeys(status) ==
  CASE status = 400 -> {"error", "details"}
    [] status = 503 -> {"error", "details", "suggestion"}
    [] OTHER -> {"error"}

\* res.status(n).json({error: ...})
ErrorResponse(status) ==
  Response(status, "res.json", ErrorOf("none", <<>>), errorKeys(status), glpPending.value,
           NoSearchResults, NoMetadata)

\* Mutant: a catch block that logs the error and does not call next.
NextErrorLogged(error) ==
  Response(0, "none", error, {}, glpPending.value, NoSearchResults, NoMetadata)

\* next(error)
NextError(error) ==
  Response(errorHandlerStatus(error), "next", error, {}, glpPending.value, NoSearchResults,
           NoMetadata)

NoRequest == [route |-> "none", body |-> [none |-> TRUE]]

\* the model texts a request is answered with
RouteTexts ==
  { <<"prose">>,
    <<"prose", "{", "title:text", "phases:list", "}", "prose">>,
    <<"{", "title:text", "phases:emptylist", "}">>,
    <<"{", "title:text", "}">> }

\* POST /generate up to its first await: validation, the llmService test, the
\* call of checkOllamaHealth
ReceiveGenerate ==
  /\ pc = "idle"
  /\ \E body \in GenerateBodies :
       /\ req' = [route |-> "generate", body |-> body]
       /\ IF ~validateLearningPathRequest(body).isValid
            THEN /\ resp' = ErrorResponse(400)
                 /\ pc' = "done"
          ELSE IF ~llmService
            THEN /\ resp' = ErrorResponse(500)
                 /\ pc' = "done"
          ELSE /\ resp' = resp
               /\ pc' = "route_health"
  /\ UNCHANGED <<llmService, events, topics, cat, sr, glp, dedupVars, fnVars, concVars>>

\* the route's own health check answers; when healthy the topics are
\* extracted and searchAllSources starts the three searches
RouteHealth ==
  /\ pc = "route_health"
  /\ \E list \in ListOutcomes :
       LET healthCheck == checkOllamaHealth(list)
           userProfile == validateLearningPathRequest(req.body).data
           extractedTopics ==
             extractTopics(join(userProfile.interests \o userProfile.goals, <<" ">>))
       IN  IF ~healthCheck.healthy
             THEN /\ events' = Append(events, Event("list", "route", FALSE,
                                                    healthCheck.error, NoValue))
                  /\ resp' = ErrorResponse(503)
                  /\ pc' = "done"
                  /\ UNCHANGED <<topics, cat>>
             ELSE /\ events' = events \o
                       << Event("list", "route", TRUE, "none", NoValue),
                          Event("extractTopics", "route", TRUE, "none", NoValue),
                          Event("searchStart", "searchAllSources", TRUE, "none", NoValue) >>
                  /\ topics' = extractedTopics
                  /\ cat' = [c \in Categories |-> startCategory(extractedTopics)]
                  /\ resp' = resp
                  /\ pc' = "searching"
  /\ UNCHANGED <<req, llmService, sr, glp, dedupVars, fnVars, concVars>>

\* searchResults.x ? searchResults.x.length : 0
lengthOrZero(results, key) == IF key \in results.keys THEN Len(results[key]) ELSE 0

\* the metadata of POST /search (searchedAt, the time of the answer, is left
\* out)
SearchMetadata(results, ts, sources) ==
  [topics |-> ts, sources |-> sources, totalResults |-> lengthOrZero(results, "all")]

\* res.json of POST /search: {results, metadata}
SearchResponse(results, ts, sources) ==
  Response(200, "res.json", ErrorOf("none", <<>>), {"results", "metadata"}, glpPending.value,
           results, SearchMetadata(results, ts, sources))

\* the metadata of POST /generate: four fields of the profile, the lengths of
\* the lists of searchResults and the topics (generatedAt, the time of the
\* answer, is left out)
GenerateMetadata(userProfile, searchResults, extractedTopics) ==
  [userProfile |->
     [interests |-> userProfile.interests, experience |-> userProfile.experience,
      timeCommitment |-> userProfile.timeCommitment,
      preferredLearningStyle |-> userProfile.preferredLearningStyle],
   contentSources |->
     [totalResources |-> lengthOrZero(searchResults, "all"),
      documentation |-> lengthOrZero(searchResults, "documentation"),
      training |-> lengthOrZero(searchResults, "training"),
      videos |-> lengthOrZero(searchResults, "videos")],
   extractedTopics |-> extractedTopics]

\* res.json of POST /generate: {learningPath, metadata}; the payload has no
\* results key and carries no row of searchResults
GenerateResponse(learningPath, userProfile, searchResults, extractedTopics) ==
  Response(200, "res.json", ErrorOf("none", <<>>), {"learningPath", "metadata"}, learningPath,
           NoSearchResults, GenerateMetadata(userProfile, searchResults, extractedTopics))

\* POST /search without 'all', once the awaited searches are through: the
\* lists are combined and the response is sent
sequentialResults(keys, cs) ==
  SearchResults(keys \cup {"all"},
                IF "documentation" \in keys THEN cs["documentation"].value ELSE <<>>,
                IF "training" \in keys THEN cs["training"].value ELSE <<>>,
                <<>>, <<>>,
                deduplicateResults(
                  (IF "documentation" \in keys THEN cs["documentation"].value ELSE <<>>) \o
                  (IF "training" \in keys THEN cs["training"].value ELSE <<>>)))

has(sources, name) == \E i \in 1..Len(sources) : sources[i] = name

\* POST /search up to its first await
ReceiveSearch ==
  /\ pc = "idle"
  /\ \E body \in SearchBodies :
       LET validation == validateSearchRequest(body)
           ts == validation.data.topics
           sources == validation.data.sources
       IN  /\ req' = [route |-> "search", body |-> body]
           /\ IF ~validation.isValid
                THEN /\ resp' = ErrorResponse(400)
                     /\ pc' = "done"
                     /\ UNCHANGED <<events, topics, cat, sr>>
              ELSE IF has(sources, <<"a","l","l">>)
                THEN /\ events' = Append(events, Event("searchStart", "searchAllSources",
                                                       TRUE, "none", NoValue))
                     /\ topics' = ts
                     /\ cat' = [c \in Categories |-> startCategory(ts)]
                     /\ pc' = "searching"
                     /\ UNCHANGED <<resp, sr>>
              ELSE IF has(sources, <<"t","v">>)
                \* redhatContentService.searchRedHatTV is not a function
                THEN /\ resp' = NextError(ErrorOf("TypeError",
                                   <<"redhatContentService.searchRedHatTV is not a function">>))
                     /\ topics' = ts
                     /\ pc' = "done"
                     /\ UNCHANGED <<events, cat, sr>>
              ELSE IF has(sources, <<"d","o","c","u","m","e","n","t","a","t","i","o","n">>)
                THEN /\ topics' = ts
                     /\ cat' = [cat EXCEPT !["documentation"] = startCategory(ts)]
                     /\ pc' = "seq_documentation"
                     /\ UNCHANGED <<events, resp, sr>>
              ELSE IF has(sources, <<"t","r","a","i","n","i","n","g">>)
                THEN /\ topics' = ts
                     /\ cat' = [cat EXCEPT !["training"] = startCategory(ts)]
                     /\ pc' = "seq_training"
                     /\ UNCHANGED <<events, resp, sr>>
              ELSE /\ topics' = ts
                   /\ sr' = sequentialResults({}, cat)
                   /\ resp' = SearchResponse(sequentialResults({}, cat), ts, sources)
                   /\ pc' = "done"
                   /\ UNCHANGED <<events, cat>>
  /\ UNCHANGED <<llmService, glp, dedupVars, fnVars, concVars>>

\* POST /search: the awaited documentation search has returned
SearchDocsReturned ==
  /\ pc = "seq_documentation"
  /\ cat["documentation"].status = "fulfilled"
  /\ LET sources == validateSearchRequest(req.body).data.sources
     IN  IF has(sources, <<"t","r","a","i","n","i","n","g">>)
           THEN /\ cat' = [cat EXCEPT !["training"] = startCategory(topics)]
                /\ pc' = "seq_training"
                /\ UNCHANGED <<sr, resp>>
           ELSE /\ sr' = sequentialResults({"documentation"}, cat)
                /\ resp' = SearchResponse(sequentialResults({"documentation"}, cat),
                                          topics, sources)
                /\ pc' = "done"
                /\ cat' = cat
  /\ UNCHANGED <<req, llmService, events, topics, glp, dedupVars, fnVars, concVars>>

\* POST /search: the awaited training search has returned
SearchTrainingReturned ==
  /\ pc = "seq_training"
  /\ cat["training"].status = "fulfilled"
  /\ LET sources == validateSearchRequest(req.body).data.sources
         keys == IF has(sources, <<"d","o","c","u","m","e","n","t","a","t","i","o","n">>)
                   THEN {"documentation", "training"} ELSE {"training"}
     IN  /\ sr' = sequentialResults(keys, cat)
         /\ resp' = SearchResponse(sequentialResults(keys, cat), topics, sources)
  /\ pc' = "done"
  /\ UNCHANGED <<req, llmService, events, topics, cat, glp, dedupVars, fnVars, concVars>>

\* searchAllSources returns once Promise.allSettled has resolved; POST /search
\* answers at once, POST /generate calls generateLearningPath, which runs up
\* to its health check
SearchAllReturned ==
  /\ pc = "searching"
  /\ allSettled(cat)
  /\ sr' = searchAllSources(cat)
  /\ IF req.route = "search"
       THEN /\ events' = Append(events, Event("aggregate", "searchAllSources", TRUE,
                                              "none", NoValue))
            /\ resp' = SearchResponse(searchAllSources(cat), topics,
                                      validateSearchRequest(req.body).data.sources)
            /\ pc' = "done"
       ELSE /\ events' = Append(events, Event("aggregate", "searchAllSources", TRUE,
                                              "none", NoValue))
            /\ resp' = resp
            /\ pc' = "glp_health"
  /\ UNCHANGED <<req, llmService, topics, cat, glp, dedupVars, fnVars, concVars>>

\* POST /generate after generateLearningPath: the response, or next(error)
GenerateRespond ==
  /\ pc = "glp_done"
  /\ req.route = "generate"
  /\ resp' = IF glp.kind = "throw"
               THEN NextError(glp.error)
               ELSE GenerateResponse(glp.value, validateLearningPathRequest(req.body).data,
                                     sr, topics)
  /\ events' = Append(events, Event("response", "route", glp.kind = "return", "none", NoValue))
  /\ pc' = "done"
  /\ UNCHANGED <<req, llmService, topics, cat, sr, glp, dedupVars, fnVars, concVars>>

DedupOff == dPc = "off" /\ dIn = <<>> /\ dOut = <<>> /\ dOut2 = <<>>

FnOff == fPc = "off" /\ fIn = <<>> /\ fOut = Return(<<>>)

\* the requests in flight at once
Handlers == {1, 2}

\* the bindings of one call of the POST /generate handler and of the service
\* calls it awaits: userProfile, extractedTopics, the searches' arrays,
\* searchResults, the prompt, the outcome of generateLearningPath
NoLocals ==
  [userProfile |-> <<>>, extractedTopics |-> <<>>, cat |-> [c \in Categories |-> CatIdle],
   searchResults |-> NoSearchResults, prompt |-> <<>>, glp |-> glpPending]

ConcOff ==
  /\ cPc = [i \in Handlers |-> "off"]
  /\ cLocals = [i \in Handlers |-> NoLocals]
  /\ cResp = [i \in Handlers |-> NoResponse]
  /\ cInstances = <<>>
  /\ cSent = [i \in Handlers |-> <<>>]
  /\ cReplied = [i \in Handlers |-> NoValue]
  /\ cActor = 0
  /\ cFaults = 0

Init ==
  /\ pc = "idle"
  /\ req = NoRequest
  /\ llmService \in BOOLEAN
  /\ events = <<>>
  /\ topics = <<>>
  /\ cat = [c \in Categories |-> CatIdle]
  /\ sr = NoSearchResults
  /\ glp = glpPending
  /\ resp = NoResponse
  /\ DedupOff
  /\ FnOff
  /\ ConcOff

Next ==
  \/ ReceiveGenerate
  \/ RouteHealth
  \/ ReceiveSearch
  \/ \E c \in Categories : CategoryDelay(c)
  \/ \E c \in Categories : CategoryQuery(c)
  \/ SearchDocsReturned
  \/ SearchTrainingReturned
  \/ SearchAllReturned
  \/ GLP_CheckHealth
  \/ GLP_Generate(RouteTexts)
  \/ GenerateRespond

Spec == Init /\ [][Next]_vars

\* ------------------------------------------------------------------------
\* generateLearningPath on its own: called with a valid profile and the
\* result of searchAllSources, answered with any reply of up to MaxTextLen
\* lexemes
\* ------------------------------------------------------------------------
MaxTextLen == 4

AllTexts == {NoValue, Undefined} \cup UNION { [1..n -> TextTokens] : n \in 0..MaxTextLen }

\* the profiles generateLearningPath is called with: each passes the route's
\* validation
LLMBodies ==
  { b \in { BaseProfile,
            [BaseProfile EXCEPT !.interests = Arr(<<Str(<<" ","A","n","s","i","b","l","e"," ">>)>>),
                                !.goals = Arr(<<Str(<<"g","e","t"," ","c","e","r","t","i","f","i","e","d">>)>>)],
            [BaseProfile EXCEPT !.interests = Arr(Times(20, Str(<<"O","p","e","n","S","h","i","f","t">>)))],
            [BaseProfile EXCEPT !.goals = Absent] } :
      b \in GenerateBodies /\ validateLearningPathRequest(b).isValid }

LLMInit ==
  /\ pc = "glp_health"
  /\ req \in {[route |-> "generateLearningPath", body |-> b] : b \in LLMBodies}
  /\ llmService = TRUE
  /\ events = <<>>
  /\ topics = <<>>
  /\ cat = [c \in Categories |-> CatIdle]
  /\ sr = NoSearchResults
  /\ glp = glpPending
  /\ resp = NoResponse
  /\ DedupOff
  /\ FnOff
  /\ ConcOff

LLMNext == GLP_CheckHealth \/ GLP_Generate(AllTexts)

SpecLLM == LLMInit /\ [][LLMNext]_vars

RequestOff ==
  /\ pc = "off"
  /\ req = NoRequest
  /\ llmService = FALSE
  /\ events = <<>>
  /\ topics = <<>>
  /\ cat = [c \in Categories |-> CatIdle]
  /\ sr = NoSearchResults
  /\ glp = glpPending
  /\ resp = NoResponse

\* deduplicateResults on its own: applied to a list, then to its own output
DedupInit ==
  /\ dPc = "input"
  /\ dIn \in DedupInputs
  /\ dOut = <<>>
  /\ dOut2 = <<>>
  /\ RequestOff
  /\ FnOff
  /\ ConcOff

DedupApply ==
  /\ dPc = "input"
  /\ dPc' = "once"
  /\ dOut' = deduplicateResults(dIn)
  /\ UNCHANGED <<dIn, dOut2, requestVars, fnVars, concVars>>

DedupApplyAgain ==
  /\ dPc = "once"
  /\ dPc' = "twice"
  /\ dOut2' = deduplicateResults(dOut)
  /\ UNCHANGED <<dIn, dOut, requestVars, fnVars, concVars>>

DedupNext == DedupApply \/ DedupApplyAgain

SpecDedup == DedupInit /\ [][DedupNext]_vars

\* ------------------------------------------------------------------------
\* Functions called on their own, each on arguments drawn from a set
\* ------------------------------------------------------------------------
\* arguments of determineContentType, isRedHatRelated and extractDomain
ClassifierArgs ==
  [ title : { Undefined, NoValue, <<>>, <<"I","n","s","t","a","l","l"," ","G","u","i","d","e">>, <<"A","n","s","i","b","l","e"," ","C","o","u","r","s","e">>,
              <<"O","p","e","n","S","h","i","f","t"," ","D","e","m","o">>, <<"R","e","d"," ","H","a","t"," ","n","e","w","s">>, <<"F","e","d","o","r","a"," ","n","e","w","s">>, <<"C","o","o","k","i","n","g">> },
    url : { Undefined, NoValue, <<>>, <<"n","o","t"," ","a"," ","u","r","l">>, <<"e","x","a","m","p","l","e",".","c","o","m","/","t","i","p","s">>,
            <<"h","t","t","p","s",":","/","/","y","o","u","t","u",".","b","e","/","x">>, <<"h","t","t","p","s",":","/","/","w","w","w",".","y","o","u","t","u","b","e",".","c","o","m","/","w","a","t","c","h">>,
            <<"h","t","t","p","s",":","/","/","w","w","w",".","Y","o","u","T","u","b","e",".","c","o","m","/","w","a","t","c","h">>,
            <<"h","t","t","p","s",":","/","/","t","v",".","r","e","d","h","a","t",".","c","o","m","/","v">>, <<"h","t","t","p","s",":","/","/","d","o","c","s",".","r","e","d","h","a","t",".","c","o","m","/","a">>,
            <<"H","T","T","P","S",":","/","/","A","c","c","e","s","s",".","R","e","d","H","a","t",".","c","o","m","/","K","B">>, <<"h","t","t","p","s",":","/","/","r","e","d","h","a","t",".","c","o","m","/","t","r","a","i","n","i","n","g">>,
            <<"h","t","t","p","s",":","/","/","e","x","a","m","p","l","e",".","c","o","m","/","n",".","p","d","f">>, <<"h","t","t","p","s",":","/","/","e","x","a","m","p","l","e",".","c","o","m","/","x">>,
            <<"h","t","t","p","s",":","/","/","u","n","k","n","o","w","n","/","r","h">>, <<"h","t","t","p","s",":","/","/","r","e","d","h","a","t",".","c","o","m",":","9","9","9","9","9","/","x">>,
            <<"h","t","t","p","s",":","/","/","r","e","d"," ","h","a","t",".","c","o","m","/","x">>, <<"h","t","t","p","s",":","/","/","[",":",":","1","]",":","8","0","8","0","/","x">>,
            <<"r","e","d","h","a","t",".","c","o","m",":","8","0","8","0","/","p","a","t","h">>, <<"m","a","i","l","t","o",":","a","@","r","e","d","h","a","t",".","c","o","m">>,
            <<" ","h","t","t","p","s",":","/","/","r","e","d","h","a","t",".","c","o","m","/","x">>, <<"h","t","t","p",":","/","x",".","c","o","m","/","a">>, <<"h","t","t","p","s",":","/","/","/","x">>,
            <<"f","t","p",":","/","/","f","i","l","e","s",".","r","e","d","h","a","t",".","c","o","m","/","x">>, <<"h","t","t","p",":","/","/","1","/">>, <<"h","t","t","p",":","/","/","0","x","7","f",".","1","/">>,
            <<"h","t","t","p",":","/","/","e","x","a","%","4","1","m","p","l","e",".","c","o","m","/">>, <<"h","t","t","p","s",":","/","/","d","o","c","s",".","r","e","d","h","a","t",".","c","o","m">> \o <<"\\", "a">>,
            <<"h","t","t","p","s",":","/","/","u","s","e","r","@","T","v",".","R","e","d","H","a","t",".","c","o","m",":","4","4","3","/","v">>, <<"f","i","l","e",":","/","/","l","o","c","a","l","h","o","s","t","/","x">> },
    description : { <<>>, <<"R","e","d"," ","H","a","t"," ","c","l","i","p">>, <<"a","n","s","i","b","l","e"," ","t","i","p","s">>, <<"S","o","u","p">> } ]

MaxInterests == 3

\* interests and goals as POST /generate hands them to extractTopics
TopicArgs ==
  [ interests :
      UNION { [1..n -> { <<"O","p","e","n","S","h","i","f","t">>, <<"p","u","r","p","l","e">>, <<"E","l","e","p","h","a","n","t","s">>, <<"t","h","e">>, <<"w","a","n","t">>,
                         <<"m","a","i","n","t","a","i","n">>, <<"g","i","r","a","f","f","e","s"," "," ","d","a","n","c","i","n","g">>,
                         <<"I"," ","w","a","n","t"," ","t","o"," ","l","e","a","r","n"," ","O","p","e","n","S","h","i","f","t"," ","a","n","d"," ","K","u","b","e","r","n","e","t","e","s">> }] :
              n \in 0..MaxInterests },
    goals : { <<>>, << <<"p","u","r","p","l","e"," ","e","l","e","p","h","a","n","t","s"," ","d","a","n","c","i","n","g">> >> } ]

\* results for deduplicateResults whose keys meet at the 50-character cut,
\* across domains, and on an empty title
KeyRows ==
  [ long |-> makeResult(<<"R","e","d"," ","H","a","t",":"," ","O","p","e","n","S","h","i","f","t"," ","C","o","n","t","a","i","n","e","r"," ","P","l","a","t","f","o","r","m"," ","4"," ","I","n","s","t","a","l","l","a","t","i","o","n">>,
                        <<"h","t","t","p","s",":","/","/","d","o","c","s",".","r","e","d","h","a","t",".","c","o","m","/","a">>, <<"I","n","s","t","a","l","l">>, <<"q">>, "Red Hat Docs"),
    longTail |-> makeResult(<<"R","e","d"," ","H","a","t"," ","O","p","e","n","S","h","i","f","t"," ","C","o","n","t","a","i","n","e","r"," ","P","l","a","t","f","o","r","m"," ","4"," ","I","n","s","t","a","l","l","a","t","i","o"," ","m","a","n","u","a","l">>,
                            <<"h","t","t","p","s",":","/","/","d","o","c","s",".","r","e","d","h","a","t",".","c","o","m","/","b">>, <<"M","a","n","u","a","l">>, <<"q">>, "Red Hat Docs"),
    longCut |-> makeResult(<<"R","e","d"," ","H","a","t"," ","O","p","e","n","S","h","i","f","t"," ","C","o","n","t","a","i","n","e","r"," ","P","l","a","t","f","o","r","m"," ","4"," ","I","n","s","t","a","l","l","a","t","i","n">>,
                           <<"h","t","t","p","s",":","/","/","d","o","c","s",".","r","e","d","h","a","t",".","c","o","m","/","c">>, <<"N","o","t","e","s">>, <<"q">>, "Red Hat Docs"),
    longMirror |-> makeResult(<<"R","e","d"," ","H","a","t",":"," ","O","p","e","n","S","h","i","f","t"," ","C","o","n","t","a","i","n","e","r"," ","P","l","a","t","f","o","r","m"," ","4"," ","I","n","s","t","a","l","l","a","t","i","o","n">>,
                              <<"h","t","t","p","s",":","/","/","e","x","a","m","p","l","e",".","c","o","m","/","x">>, <<"M","i","r","r","o","r">>, <<"q">>, "Red Hat Docs"),
    symbols |-> makeResult(<<"&","&">>, <<"h","t","t","p","s",":","/","/","d","o","c","s",".","r","e","d","h","a","t",".","c","o","m","/","v">>, <<"C","l","i","p">>, <<"q">>,
                           "Red Hat Docs"),
    marks |-> makeResult(<<"?","!">>, <<"h","t","t","p","s",":","/","/","d","o","c","s",".","r","e","d","h","a","t",".","c","o","m","/","w">>, <<"R","e","d"," ","H","a","t"," ","c","l","i","p">>, <<"q">>,
                         "Red Hat Docs") ]

DedupArgs ==
  [ results : UNION { [1..n -> {KeyRows[k] : k \in DOMAIN KeyRows}] : n \in 0..MaxDedupLen } ]

\* what one selector may match on a result page: nothing, blocks of which
\* none, some or all are related, and more than maxResults blocks
SelectorMatches ==
  { <<>>,
    <<SampleBlock.unrelated>>,
    <<SampleBlock.unrelated, SampleBlock.docsGuide>>,
    <<SampleBlock.course, SampleBlock.tubeDemo>>,
    [i \in 1..maxResults |-> SampleBlock.docsGuide] \o <<SampleBlock.course>>,
    [i \in 1..maxResults |-> SampleBlock.unrelated] \o <<SampleBlock.blog>> }

\* a parsed page, the query it answers and the source label of the call
PageArgs ==
  [ page : [1..Len(resultSelectors) -> SelectorMatches],
    query : { <<"s","i","t","e",":","t","v",".","r","e","d","h","a","t",".","c","o","m"," ">> \o DQ \o <<"r","h","e","l">> \o DQ },
    source : { "Red Hat Videos" } ]

\* ------------------------------------------------------------------------
\* The category searches and searchAllSources as calls: the topics argument
\* is any value; a call runs from one await to the next, and each GET it
\* sends fails or brings a page
\* ------------------------------------------------------------------------
Fetch(ok, page) == [ok |-> ok, page |-> page]

\* what performDuckDuckGoSearch returns for one fetch
fetchResults(f, c, query) ==
  IF ~f.ok
    THEN [defined |-> FALSE, list |-> <<>>]
    ELSE [defined |-> TRUE, list |-> pageResults(f.page, query, sourceLabel(c))]

\* a call that stands at an await
Pending == [kind |-> "pending", value |-> <<>>]

\* Mutant: a category search without its outer try/catch.
categorySearchUncaught(c, topicsValue) ==
  IF topicsValue.t # "array" THEN Throw("TypeError")
  ELSE IF startCategory(topicsValue.a).status = "fulfilled"
    THEN Return(startCategory(topicsValue.a).value)
  ELSE Pending

\* searchRedHatDocs, searchRedHatTraining, searchRedHatVideos up to the first
\* await: topics.join throws on a value that is no array, and the outer catch
\* returns []; without topics the call returns at once
categorySearch(c, topicsValue) ==
  IF topicsValue.t # "array" THEN Return(<<>>)
  ELSE IF startCategory(topicsValue.a).status = "fulfilled"
    THEN Return(startCategory(topicsValue.a).value)
  ELSE Pending

\* searchAllSources up to its await of Promise.allSettled: its own
\* topics.join comes first, and its catch rethrows
searchAllSourcesCall(topicsValue) ==
  IF topicsValue.t # "array" THEN Throw("TypeError") ELSE Pending

TopicsValues ==
  { Absent, Str(<<"r","h","e","l">>), Arr(<<>>), Arr(<< <<"r","h","e","l">> >>), Arr(<< <<"r","h","e","l">>, <<"a","n","s","i","b","l","e">> >>) }

NoPage == [s \in 1..Len(resultSelectors) |-> <<>>]

\* a page whose first selector matches more than maxResults related blocks,
\* and one whose first selector matches nothing that is kept
FullPage ==
  << [i \in 1..maxResults |-> SampleBlock.docsGuide] \o <<SampleBlock.course>>,
     <<SampleBlock.blog>>, <<>> >>

SparsePage ==
  << <<SampleBlock.unrelated>>, <<SampleBlock.course, SampleBlock.tubeDemo>>, <<>> >>

\* a page whose first selector matches related and unrelated blocks
MixedPage ==
  << <<SampleBlock.docsGuide, SampleBlock.unrelated, SampleBlock.blog>>,
     <<SampleBlock.course>>, <<>> >>

\* how a GET of a category search called on its own may end: it fails or
\* brings a page, the full page only while the call holds fewer than
\* maxResults rows
Fetches(s) ==
  { Fetch(FALSE, NoPage), Fetch(TRUE, SparsePage) } \cup
  (IF Len(s.searchResults) < maxResults THEN { Fetch(TRUE, FullPage) } ELSE {})

\* how a GET of one of the three searches of searchAllSources may end
FetchesOfAll == { Fetch(FALSE, NoPage), Fetch(TRUE, MixedPage) }

CategoryArgs == [ c : Categories, topics : TopicsValues ]

AllSourcesArgs == [ topics : TopicsValues ]

\* a category search is called and runs up to its first await
ApplyCategorySearch ==
  /\ fPc = "category"
  /\ fOut' = categorySearch(fIn.c, fIn.topics)
  /\ IF categorySearch(fIn.c, fIn.topics).kind = "pending"
       THEN /\ fPc' = "categoryRunning"
            /\ cat' = [cat EXCEPT ![fIn.c] = startCategory(fIn.topics.a)]
       ELSE /\ fPc' = "categorySearch"
            /\ cat' = cat
  /\ UNCHANGED <<fIn, pc, req, llmService, events, topics, sr, glp, resp, dedupVars,
                 concVars>>

\* searchAllSources is called: the three searches start and run up to their
\* first await
ApplySearchAllSources ==
  /\ fPc = "allSources"
  /\ fOut' = searchAllSourcesCall(fIn.topics)
  /\ IF searchAllSourcesCall(fIn.topics).kind = "pending"
       THEN /\ fPc' = "allSourcesRunning"
            /\ cat' = [c \in Categories |-> startCategory(fIn.topics.a)]
       ELSE /\ fPc' = "searchAllSources"
            /\ cat' = cat
  /\ UNCHANGED <<fIn, pc, req, llmService, events, topics, sr, glp, resp, dedupVars,
                 concVars>>

\* the searches of the call under study
CallRunning(c) ==
  \/ fPc = "categoryRunning" /\ fIn.c = c
  \/ fPc = "allSourcesRunning"

\* the delay of a query is over and its GET is sent
CallCategoryDelay(c) ==
  /\ CallRunning(c)
  /\ cat[c].status = "running"
  /\ cat[c].wait = "delay"
  /\ cat' = [cat EXCEPT ![c] = afterDelay(cat[c])]
  /\ UNCHANGED <<fnVars, pc, req, llmService, events, topics, sr, glp, resp, dedupVars,
                 concVars>>

\* the GET of a query is answered, or fails; after the last query of a search
\* called on its own the call returns the deduplicated list
CallCategoryQuery(c) ==
  /\ CallRunning(c)
  /\ cat[c].status = "running"
  /\ cat[c].wait = "get"
  /\ \E f \in (IF fPc = "categoryRunning" THEN Fetches(cat[c]) ELSE FetchesOfAll) :
       LET s == afterQuery(c, cat[c],
                           fetchResults(f, c, queriesFor(c, fIn.topics.a[cat[c].ti])[cat[c].qi]),
                           fIn.topics.a)
       IN  /\ cat' = [cat EXCEPT ![c] = s]
           /\ IF fPc = "categoryRunning" /\ s.status = "fulfilled"
                THEN fPc' = "categorySearch" /\ fOut' = Return(s.value)
                ELSE fPc' = fPc /\ fOut' = fOut
  /\ UNCHANGED <<fIn, pc, req, llmService, events, topics, sr, glp, resp, dedupVars,
                 concVars>>

\* Promise.allSettled resolves and searchAllSources returns its object
SearchAllSourcesReturn ==
  /\ fPc = "allSourcesRunning"
  /\ allSettled(cat)
  /\ fPc' = "searchAllSources"
  /\ fOut' = Return(searchAllSources(cat))
  /\ UNCHANGED <<fIn, requestVars, dedupVars, concVars>>

FnInit ==
  /\ \/ fPc = "classifier" /\ fIn \in ClassifierArgs
     \/ fPc = "category" /\ fIn \in CategoryArgs
     \/ fPc = "allSources" /\ fIn \in AllSourcesArgs
     \/ fPc = "topics" /\ fIn \in TopicArgs
     \/ fPc = "results" /\ fIn \in DedupArgs
     \/ fPc = "page" /\ fIn \in PageArgs
  /\ fOut = Return(<<>>)
  /\ RequestOff
  /\ DedupOff
  /\ ConcOff

IsString(v) == v # NoValue /\ v # Undefined

ApplyDetermineContentType ==
  /\ fPc = "classifier"
  /\ fPc' = "determineContentType"
  /\ fOut' = determineContentTypeCall(fIn.url, fIn.title)
  /\ UNCHANGED <<fIn, requestVars, dedupVars, concVars>>

\* isRedHatRelated as performDuckDuckGoSearch calls it: with three strings
ApplyIsRedHatRelated ==
  /\ fPc = "classifier"
  /\ IsString(fIn.title) /\ IsString(fIn.url) /\ IsString(fIn.description)
  /\ fPc' = "isRedHatRelated"
  /\ fOut' = Return(isRedHatRelated(fIn.title, fIn.url, fIn.description))
  /\ UNCHANGED <<fIn, requestVars, dedupVars, concVars>>

\* extractDomain catches whatever new URL throws
ApplyExtractDomain ==
  /\ fPc = "classifier"
  /\ fPc' = "extractDomain"
  /\ fOut' = Return(extractDomain(IF IsString(fIn.url) THEN fIn.url ELSE <<>>))
  /\ UNCHANGED <<fIn, requestVars, dedupVars, concVars>>

\* extractTopics on the joined interests and goals
ApplyExtractTopics ==
  /\ fPc = "topics"
  /\ fPc' = "extractTopics"
  /\ fOut' = Return(extractTopics(join(fIn.interests \o fIn.goals, <<" ">>)))
  /\ UNCHANGED <<fIn, requestVars, dedupVars, concVars>>

\* deduplicateResults on a list of results
ApplyDeduplicateResults ==
  /\ fPc = "results"
  /\ fPc' = "deduplicateResults"
  /\ fOut' = Return(deduplicateResults(fIn.results))
  /\ UNCHANGED <<fIn, requestVars, dedupVars, concVars>>

\* performDuckDuckGoSearch from the parsed page on
ApplyPageResults ==
  /\ fPc = "page"
  /\ fPc' = "pageResults"
  /\ fOut' = Return(pageResults(fIn.page, fIn.query, fIn.source))
  /\ UNCHANGED <<fIn, requestVars, dedupVars, concVars>>

FnNext ==
  \/ ApplyPageResults
  \/ ApplyCategorySearch
  \/ ApplySearchAllSources
  \/ \E c \in Categories : CallCategoryDelay(c)
  \/ \E c \in Categories : CallCategoryQuery(c)
  \/ SearchAllSourcesReturn
  \/ ApplyDetermineContentType
  \/ ApplyIsRedHatRelated
  \/ ApplyExtractDomain
  \/ ApplyExtractTopics
  \/ ApplyDeduplicateResults

SpecFn == FnInit /\ [][FnNext]_vars

\* ------------------------------------------------------------------------
\* Two POST /generate requests in flight at once.  The router and the two
\* service instances are created once, when routes/learningPath.js is
\* loaded; every request runs the same handler on them, and a handler gives
\* way to the other at each await: the route's health check, every fetch of
\* the three searches, the health check and the generate call of
\* generateLearningPath.
\* ------------------------------------------------------------------------
MaxFaults == 1

\* what the constructors leave on the instances
ServiceInstances(constructed) ==
  [llmService |-> constructed, model |-> OllamaModel, maxResults |-> maxResults]

\* the profiles the two clients send
ConcProfiles ==
  << [BaseProfile EXCEPT !.interests = Arr(<<Str(<<" ","A","n","s","i","b","l","e"," ">>)>>),
                         !.goals = Arr(<<Str(<<"g","e","t"," ","c","e","r","t","i","f","i","e","d">>)>>)],
     BaseProfile >>

\* what client i may send: its profile, or a body without interests
ConcBodies(i) == { ConcProfiles[i], [ConcProfiles[i] EXCEPT !.interests = Absent] }

\* the model texts the two generate calls are answered with
ConcTexts ==
  { <<"prose">>, <<"prose", "{", "title:text", "phases:list", "}", "prose">> }

\* Mutant: the handler's bindings live in one module-level scope.
scopeShared(i) == 1

\* const and let inside the handler and inside the service methods: every
\* call has a scope of its own
scopeOf(i) == i

ConcInit ==
  /\ cPc = [i \in Handlers |-> "idle"]
  /\ cLocals = [i \in Handlers |-> NoLocals]
  /\ cResp = [i \in Handlers |-> NoResponse]
  /\ cInstances \in { ServiceInstances(b) : b \in BOOLEAN }
  /\ cSent = [i \in Handlers |-> <<>>]
  /\ cReplied = [i \in Handlers |-> NoValue]
  /\ cActor = 0
  /\ cFaults = 0
  /\ RequestOff
  /\ DedupOff
  /\ FnOff

\* POST /generate up to its first await
ConcReceive(i) ==
  /\ cPc[i] = "idle"
  /\ \E body \in ConcBodies(i) :
       /\ cSent' = [cSent EXCEPT ![i] = body]
       /\ IF ~validateLearningPathRequest(body).isValid
            THEN /\ cResp' = [cResp EXCEPT ![i] = ErrorResponse(400)]
                 /\ cPc' = [cPc EXCEPT ![i] = "done"]
                 /\ cLocals' = cLocals
          ELSE IF ~cInstances.llmService
            THEN /\ cResp' = [cResp EXCEPT ![i] = ErrorResponse(500)]
                 /\ cPc' = [cPc EXCEPT ![i] = "done"]
                 /\ cLocals' = [cLocals EXCEPT ![scopeOf(i)].userProfile =
                                  validateLearningPathRequest(body).data]
          ELSE /\ cResp' = cResp
               /\ cPc' = [cPc EXCEPT ![i] = "route_health"]
               /\ cLocals' = [cLocals EXCEPT ![scopeOf(i)].userProfile =
                                validateLearningPathRequest(body).data]
  /\ cActor' = i
  /\ UNCHANGED <<cInstances, cReplied, cFaults, requestVars, dedupVars, fnVars>>

\* the route's health check answers; when healthy the topics are extracted
\* and searchAllSources starts the three searches
ConcRouteHealth(i) ==
  /\ cPc[i] = "route_health"
  /\ \E list \in ListOutcomes :
       LET healthCheck == checkOllamaHealth(list)
           userProfile == cLocals[scopeOf(i)].userProfile
           extractedTopics ==
             extractTopics(join(userProfile.interests \o userProfile.goals, <<" ">>))
       IN  IF ~healthCheck.healthy
             THEN /\ cResp' = [cResp EXCEPT ![i] = ErrorResponse(503)]
                  /\ cPc' = [cPc EXCEPT ![i] = "done"]
                  /\ cLocals' = cLocals
             ELSE /\ cLocals' = [cLocals EXCEPT
                                   ![scopeOf(i)].extractedTopics = extractedTopics,
                                   ![scopeOf(i)].cat =
                                     [c \in Categories |-> startCategory(extractedTopics)]]
                  /\ cResp' = cResp
                  /\ cPc' = [cPc EXCEPT ![i] = "searching"]
  /\ cActor' = i
  /\ UNCHANGED <<cInstances, cSent, cReplied, cFaults, requestVars, dedupVars, fnVars>>

\* the data of each client's profile, the topics extractTopics finds in it and
\* the queries the three searches build from those topics
OwnProfile == [i \in Handlers |-> validateLearningPathRequest(ConcProfiles[i]).data]

TopicsOf(profile) == extractTopics(join(profile.interests \o profile.goals, <<" ">>))

OwnTopics == [i \in Handlers |-> TopicsOf(OwnProfile[i])]

QueriesOf(ts) ==
  UNION { { queriesFor(c, ts[k])[n] : n \in 1..Len(queriesFor(c, ts[k])) } :
            c \in Categories, k \in 1..Len(ts) }

OwnQueries == [i \in Handlers |-> QueriesOf(OwnTopics[i])]

\* performDuckDuckGoSearch for every query the two handlers can send and every
\* outcome of its fetch, worked out once
ConcSearch ==
  [outcome \in FetchOutcomes, c \in Categories, query \in UNION {OwnQueries[i] : i \in Handlers} |->
     performDuckDuckGoSearch(outcome, c, query)]

\* the delay of a query of one of the handler's searches is over and its
\* GET is sent
ConcCategoryDelay(i, c) ==
  /\ cPc[i] = "searching"
  /\ cLocals[scopeOf(i)].cat[c].status = "running"
  /\ cLocals[scopeOf(i)].cat[c].wait = "delay"
  /\ cLocals' = [cLocals EXCEPT ![scopeOf(i)].cat[c] = afterDelay(@)]
  /\ cActor' = i
  /\ UNCHANGED <<cPc, cResp, cInstances, cSent, cReplied, cFaults, requestVars, dedupVars,
                 fnVars>>

\* the GET of a query of one of the handler's searches is answered, or fails
ConcCategoryQuery(i, c) ==
  /\ cPc[i] = "searching"
  /\ cLocals[scopeOf(i)].cat[c].status = "running"
  /\ cLocals[scopeOf(i)].cat[c].wait = "get"
  /\ \E outcome \in FetchOutcomes :
       /\ outcome = "fail" => cFaults < MaxFaults
       /\ cFaults' = IF outcome = "fail" THEN cFaults + 1 ELSE cFaults
       /\ cLocals' =
            [cLocals EXCEPT ![scopeOf(i)].cat[c] =
               afterQuery(c, cLocals[scopeOf(i)].cat[c],
                          ConcSearch[outcome, c,
                            queriesFor(c, cLocals[scopeOf(i)].extractedTopics[
                                            cLocals[scopeOf(i)].cat[c].ti])[
                              cLocals[scopeOf(i)].cat[c].qi]],
                          cLocals[scopeOf(i)].extractedTopics)]
  /\ cActor' = i
  /\ UNCHANGED <<cPc, cResp, cInstances, cSent, cReplied, requestVars, dedupVars, fnVars>>

\* Promise.allSettled resolves, searchAllSources returns and
\* generateLearningPath runs up to its health check
ConcSearchAllReturned(i) ==
  /\ cPc[i] = "searching"
  /\ allSettled(cLocals[scopeOf(i)].cat)
  /\ cLocals' = [cLocals EXCEPT ![scopeOf(i)].searchResults =
                   searchAllSources(cLocals[scopeOf(i)].cat)]
  /\ cPc' = [cPc EXCEPT ![i] = "glp_health"]
  /\ cActor' = i
  /\ UNCHANGED <<cResp, cInstances, cSent, cReplied, cFaults, requestVars, dedupVars,
                 fnVars>>

\* generateLearningPath up to its await of ollama.generate
ConcCheckHealth(i) ==
  /\ cPc[i] = "glp_health"
  /\ \E list \in ListOutcomes :
       LET healthCheck == checkOllamaHealth(list)
       IN  IF healthCheck.healthy
             THEN /\ cLocals' = [cLocals EXCEPT ![scopeOf(i)].prompt =
                                   buildUserPrompt(cLocals[scopeOf(i)].userProfile,
                                                   cLocals[scopeOf(i)].searchResults)]
                  /\ cPc' = [cPc EXCEPT ![i] = "glp_generate"]
             ELSE /\ cLocals' = [cLocals EXCEPT ![scopeOf(i)].glp =
                                   glpCatch(<<"Ollama service unavailable",
                                              healthCheck.error>>)]
                  /\ cPc' = [cPc EXCEPT ![i] = "glp_done"]
  /\ cActor' = i
  /\ UNCHANGED <<cResp, cInstances, cSent, cReplied, cFaults, requestVars, dedupVars,
                 fnVars>>

\* ollama.generate answers the handler's call (or fails), and the answer is
\* parsed
ConcGenerate(i) ==
  /\ cPc[i] = "glp_generate"
  /\ \/ /\ cLocals' = [cLocals EXCEPT ![scopeOf(i)].glp = glpCatch(<<"fetch failed">>)]
        /\ cReplied' = cReplied
     \/ \E text \in ConcTexts :
          /\ cLocals' = [cLocals EXCEPT ![scopeOf(i)].glp =
                           glpReturn(parseLearningPathResponse(text))]
          /\ cReplied' = [cReplied EXCEPT ![i] = text]
  /\ cPc' = [cPc EXCEPT ![i] = "glp_done"]
  /\ cActor' = i
  /\ UNCHANGED <<cResp, cInstances, cSent, cFaults, requestVars, dedupVars, fnVars>>

\* the response, or next(error)
ConcRespond(i) ==
  /\ cPc[i] = "glp_done"
  /\ cResp' = [cResp EXCEPT ![i] =
                 IF cLocals[scopeOf(i)].glp.kind = "throw"
                   THEN NextError(cLocals[scopeOf(i)].glp.error)
                   ELSE GenerateResponse(cLocals[scopeOf(i)].glp.value,
                                         cLocals[scopeOf(i)].userProfile,
                                         cLocals[scopeOf(i)].searchResults,
                                         cLocals[scopeOf(i)].extractedTopics)]
  /\ cPc' = [cPc EXCEPT ![i] = "done"]
  /\ cActor' = i
  /\ UNCHANGED <<cLocals, cInstances, cSent, cReplied, cFaults, requestVars, dedupVars,
                 fnVars>>

ConcNext ==
  \E i \in Handlers :
    \/ ConcReceive(i)
    \/ ConcRouteHealth(i)
    \/ \E c \in Categories : ConcCategoryDelay(i, c)
    \/ \E c \in Categories : ConcCategoryQuery(i, c)
    \/ ConcSearchAllReturned(i)
    \/ ConcCheckHealth(i)
    \/ ConcGenerate(i)
    \/ ConcRespond(i)

SpecConc == ConcInit /\ [][ConcNext]_vars

\* ========================================================================
\* Properties
\* ========================================================================

\* the entries of the handler's history written by generateLearningPath
GlpFailure ==
  \E i \in 1..Len(events) : events[i].by = "generateLearningPath" /\ ~events[i].ok

GlpReplies ==
  {events[i].text : i \in {j \in 1..Len(events) :
                             events[j].ev = "generate" /\ events[j].ok}}

\* the fixed fallback as the specification describes it
IsFallback(v) ==
  /\ v.title = "Custom Red Hat Learning Path"
  /\ Len(v.phases) = 1
  /\ v.phases[1].title = "Foundation Phase"
  /\ v.phases[1].resources = <<>>
  /\ v.recommended = <<"Red Hat Certified System Administrator (RHCSA)">>
  /\ v.parseError # "none"

\* a reply whose span from the first '{' to the last '}' is an object with a
\* usable title and phases
UsableReply(text) ==
  /\ text # NoValue
  /\ jsonMatch(text) # NoValue
  /\ IsJsonObject(jsonMatch(text))
  /\ TruthyMember(memberValue(jsonMatch(text), TitleMembers))
  /\ TruthyMember(memberValue(jsonMatch(text), PhasesMembers))

\* C1 as stated: generateLearningPath never raises; every failure kind ends in
\* the fallback being returned.
C1_NeverRaises ==
  pc = "glp_done" =>
    /\ glp.kind = "return"
    /\ (GlpFailure \/ \E text \in GlpReplies : ~UsableReply(text)) => IsFallback(glp.value)

\* C1 amended: a reply that cannot be parsed, or whose object lacks a usable
\* title or phases, is answered with the fallback; an unhealthy health check
\* or a failing generate call is raised to the caller as
\* Error("Failed to generate learning path: ...").
C1_RaisesOnModelFailure ==
  pc = "glp_done" =>
    IF GlpFailure
      THEN /\ glp.kind = "throw"
           /\ glp.error.name = "Error"
           /\ glp.error.message[1] = "Failed to generate learning path"
      ELSE /\ glp.kind = "return"
           /\ \A text \in GlpReplies :
                IF UsableReply(text) THEN ~IsFallback(glp.value) ELSE IsFallback(glp.value)

\* C1 witness: the health check passed and the model's object has a title but
\* no phases: the fallback is returned.
C1_Witness ==
  /\ pc = "glp_done"
  /\ glp.kind = "return"
  /\ IsFallback(glp.value)
  /\ \E text \in GlpReplies :
       /\ text # NoValue
       /\ jsonMatch(text) # NoValue
       /\ IsJsonObject(jsonMatch(text))
       /\ memberValue(jsonMatch(text), PhasesMembers) = "undefined"

\* no contiguous part of the text is a JSON object, the phase objects of a
\* phases list included
NoParsableObject(text) ==
  \A i, j \in 1..Len(pieces(text)) :
    i <= j => ~IsJsonObject(SubSeq(pieces(text), i, j))

\* C2: when the health check passes and the model returns text that contains
\* no parsable JSON object, the fallback is returned with the fixed title,
\* parseError set, rawResponse equal to the text, and exactly one phase whose
\* resources list is empty.
C2_FallbackOnNonJson ==
  pc = "glp_done" =>
    \A text \in GlpReplies :
      (text # NoValue /\ NoParsableObject(text)) =>
        /\ glp.kind = "return"
        /\ glp.value.title = "Custom Red Hat Learning Path"
        /\ glp.value.parseError # "none"
        /\ glp.value.rawResponse = text
        /\ Len(glp.value.phases) = 1
        /\ glp.value.phases[1].resources = <<>>

\* C2 witness: a reply that has braces and a member but is no object.
C2_Witness ==
  /\ pc = "glp_done"
  /\ glp.kind = "return"
  /\ \E text \in GlpReplies :
       /\ text # NoValue
       /\ NoParsableObject(text)
       /\ jsonMatch(text) # NoValue
       /\ \E i \in 1..Len(text) : text[i] \in TitleMembers
       /\ glp.value.rawResponse = text

\* the request was answered without the core being entered
AnsweredBeforeCore ==
  /\ pc = "done"
  /\ events = <<>>
  /\ topics = <<>>
  /\ \A c \in Categories : cat[c] = CatIdle
  /\ sr = NoSearchResults
  /\ glp = glpPending

\* the request schemas as the specification words them (lengths are those of
\* the trimmed strings)
StringList(v, nlo, nhi, lo, hi) ==
  /\ v.t = "array"
  /\ Len(v.a) >= nlo /\ Len(v.a) <= nhi
  /\ \A i \in 1..Len(v.a) :
       v.a[i].t = "string" /\ Len(trim(v.a[i].s)) >= lo /\ Len(trim(v.a[i].s)) <= hi

Text(v, lo, hi) == v.t = "string" /\ Len(trim(v.s)) >= lo /\ Len(trim(v.s)) <= hi

ProfileMeetsSchema(body) ==
  /\ StringList(body.interests, 1, 20, 1, 200)
  /\ StringList(body.goals, 1, 10, 1, 300)
  /\ Text(body.experience, 1, 100)
  /\ Text(body.timeCommitment, 1, 100)
  /\ Text(body.preferredLearningStyle, 1, 100)
  /\ body.currentRole.t = "absent" \/ Text(body.currentRole, 0, 100)
  /\ body.industryFocus.t = "absent" \/ Text(body.industryFocus, 0, 100)
  /\ body.certificationGoals.t = "absent" \/
       (body.certificationGoals.t = "array" /\ Len(body.certificationGoals.a) <= 5)
  /\ body.additionalContext.t = "absent" \/ Text(body.additionalContext, 0, 500)

SearchMeetsSchema(body) ==
  /\ StringList(body.topics, 1, 10, 1, 100)
  /\ \/ body.sources.t = "absent"
     \/ /\ body.sources.t = "array"
        /\ \A i \in 1..Len(body.sources.a) :
             body.sources.a[i] \in { Str(<<"t","v">>), Str(<<"d","o","c","u","m","e","n","t","a","t","i","o","n">>), Str(<<"t","r","a","i","n","i","n","g">>),
                                     Str(<<"a","l","l">>) }

\* C4: a POST generate body that violates the schema is answered with 400 and
\* no health check, topic extraction, search fetch or model call is issued for
\* it; the same holds for an invalid POST search body.
C4_InvalidBodyRejected ==
  /\ (req.route = "generate" /\ ~ProfileMeetsSchema(req.body)) =>
       (resp.status = 400 /\ resp.via = "res.json" /\ AnsweredBeforeCore)
  /\ (req.route = "search" /\ ~SearchMeetsSchema(req.body)) =>
       (resp.status = 400 /\ resp.via = "res.json" /\ AnsweredBeforeCore)

\* C4 witness: a profile with 21 interests, one over the limit, was answered
\* with 400.
C4_Witness ==
  /\ req.route = "generate"
  /\ req.body.interests.t = "array"
  /\ Len(req.body.interests.a) = 21
  /\ resp.status = 400
  /\ AnsweredBeforeCore

\* a model call of the request found the endpoint unreachable or the model
\* absent
ModelUnavailableSeen ==
  \E i \in 1..Len(events) : events[i].ev \in {"list", "generate"} /\ ~events[i].ok

C5_SearchAnswers200 ==
  (pc = "done" /\ req.route = "search" /\ SearchMeetsSchema(req.body)) =>
    /\ resp.status = 200
    /\ resp.via = "res.json"
    /\ resp.metadata.totalResults = Len(resp.results.all)

\* the <<topic, query>> positions of a category search over the topics
AllQueries(c) ==
  {p \in (1..Len(topics)) \X (1..2) : p[2] <= Len(queriesFor(c, topics[p[1]]))}

\* C6 as stated: a failed query costs only its own results; every other query
\* of the same topic and of every later topic is still issued.
C6_EveryQueryIssued ==
  \A c \in Categories :
    cat[c].status = "fulfilled" => cat[c].issued = AllQueries(c)

\* C7: `all` is computed only after the documentation, training and video
\* searches have all settled, whatever their order; a category all of whose
\* fetches failed contributes an empty list without failing the call; `all`
\* is the deduplicated union of the three lists.
C7_AllAfterEverySearchSettled ==
  /\ pc = "searching" => sr = NoSearchResults
  /\ "videos" \in sr.keys =>
       /\ \A c \in Categories : cat[c].status = "fulfilled"
       /\ sr.documentation = cat["documentation"].value
       /\ sr.training = cat["training"].value
       /\ sr.videos = cat["videos"].value
       /\ sr.all = deduplicateResults(sr.documentation \o sr.training \o sr.videos)
       /\ \A c \in Categories : cat[c].failed = cat[c].issued => cat[c].value = <<>>

\* C7 witness: the join after a video search whose every fetch failed, with
\* documentation and training rows of which the union dropped a duplicate.
C7_Witness ==
  /\ "videos" \in sr.keys
  /\ Len(topics) >= 2
  /\ cat["videos"].failed = cat["videos"].issued
  /\ sr.videos = <<>>
  /\ sr.documentation # <<>>
  /\ sr.training # <<>>
  /\ Len(sr.all) < Len(sr.documentation) + Len(sr.training)

\* every element of the list has a title and a url
AllRetained(list) ==
  \A i \in 1..Len(list) : list[i].title # <<>> /\ Truthy(list[i].url)

ListsOf(results) == {results.documentation, results.training, results.videos, results.all}

\* C11: every element of every list returned by a category search, by
\* searchAllSources and by POST search has a non-empty title and a non-empty
\* url, also when cleanTitle emptied a title and when a redirect URL failed
\* to unwrap.
C11_NoEmptyTitleOrUrl ==
  /\ \A c \in Categories : cat[c].status = "fulfilled" => AllRetained(cat[c].value)
  /\ \A list \in ListsOf(sr) : AllRetained(list)
  /\ \A list \in ListsOf(resp.results) : AllRetained(list)

\* C11 witness: POST search answered after the video search pushed a row
\* whose title cleanTitle emptied and the documentation page held a redirect
\* that failed to unwrap.
C11_Witness ==
  /\ pc = "done" /\ req.route = "search" /\ resp.status = 200
  /\ \E i \in 1..Len(cat["videos"].searchResults) :
       cat["videos"].searchResults[i].title = <<>>
  /\ cat["documentation"].searchResults # <<>>
  /\ \E i \in 1..Len(WebPage("documentation")[1]) :
       blockUrl(WebPage("documentation")[1][i]) = NoValue
  /\ resp.results.videos # <<>>
  /\ resp.results.documentation # <<>>

ContentTypes == {"video", "documentation", "training", "article", "pdf", "unknown"}

\* a url the URL parser rejects
Malformed(url) == IsString(url) /\ url # <<>> /\ UrlHostname(url) = InvalidURL

\* C12 as stated: determineContentType returns, without throwing, one of the
\* six labels for every url and title, a missing or null title included, and
\* returns unknown for an empty and for a malformed url.
C12_TotalClassifier ==
  fPc = "determineContentType" =>
    /\ fOut.kind = "return"
    /\ fOut.value \in ContentTypes
    /\ (~IsString(fIn.url) \/ fIn.url = <<>> \/ Malformed(fIn.url)) => fOut.value = "unknown"

\* the text extractTopics was called on
TopicText == join(fIn.interests \o fIn.goals, <<" ">>)

\* one of the bucket's keywords is a substring of the lowercased text
Implied(bucket, text) ==
  \E k \in 1..Len(bucket.keywords) : includes(toLowerCase(text), bucket.keywords[k])

Among(x, seq) == \E i \in 1..Len(seq) : seq[i] = x

\* C13: over the 12 buckets, extractTopics includes a bucket name exactly
\* when one of the bucket's keywords is a substring of the lowercased input;
\* "I want to learn OpenShift and Kubernetes" yields exactly openshift; every
\* bucket implied by one of the interests is among the extracted topics.
C13_BucketExactlyWhenKeyword ==
  fPc = "extractTopics" =>
    /\ Len(topicKeywords) = 12
    /\ \A n \in 1..Len(topicKeywords) :
         Among(topicKeywords[n].topic, fOut.value) <=> Implied(topicKeywords[n], TopicText)
    /\ TopicText = <<"I"," ","w","a","n","t"," ","t","o"," ","l","e","a","r","n"," ","O","p","e","n","S","h","i","f","t"," ","a","n","d"," ","K","u","b","e","r","n","e","t","e","s">> =>
         fOut.value = << <<"o","p","e","n","s","h","i","f","t">> >>
    /\ \A j \in 1..Len(fIn.interests) : \A n \in 1..Len(topicKeywords) :
         Implied(topicKeywords[n], fIn.interests[j]) =>
           Among(topicKeywords[n].topic, fOut.value)

\* C13 witness: the example sentence, as the only interest.
C13_Witness ==
  /\ fPc = "extractTopics"
  /\ fIn.interests = << <<"I"," ","w","a","n","t"," ","t","o"," ","l","e","a","r","n"," ","O","p","e","n","S","h","i","f","t"," ","a","n","d"," ","K","u","b","e","r","n","e","t","e","s">> >>
  /\ fIn.goals = <<>>
  /\ fOut.value = << <<"o","p","e","n","s","h","i","f","t">> >>

\* the words the fallback may return: longer than 3 characters and no
\* stopword, in input order
FallbackWords(text) ==
  SelectSeq(splitWords(toLowerCase(text)),
            LAMBDA w : Len(w) > 3 /\ w \notin topicStopwords)

\* C14: when no bucket keyword is a substring of the input, extractTopics
\* returns the first three whitespace-separated tokens longer than 3
\* characters that are no stopwords, in input order and without repeats;
\* when a bucket matches, only bucket names are returned.
C14_FallbackFirstThreeTokens ==
  fPc = "extractTopics" =>
    IF \E n \in 1..Len(topicKeywords) : Implied(topicKeywords[n], TopicText)
      THEN \A i \in 1..Len(fOut.value) :
             \E n \in 1..Len(topicKeywords) : fOut.value[i] = topicKeywords[n].topic
      ELSE fOut.value =
             uniqueInOrder(SubSeq(FallbackWords(TopicText), 1,
                                  MinOf(3, Len(FallbackWords(TopicText)))))

\* C14 witness: no bucket matches, a stopword and a short word are passed
\* over, and a fourth remaining word is left out.
C14_Witness ==
  /\ fPc = "extractTopics"
  /\ fIn.interests = << <<"w","a","n","t">>, <<"t","h","e">>, <<"g","i","r","a","f","f","e","s"," "," ","d","a","n","c","i","n","g">> >>
  /\ fIn.goals = << <<"p","u","r","p","l","e"," ","e","l","e","p","h","a","n","t","s"," ","d","a","n","c","i","n","g">> >>
  /\ fOut.value = << <<"g","i","r","a","f","f","e","s">>, <<"d","a","n","c","i","n","g">>, <<"p","u","r","p","l","e">> >>

\* C15 as stated: every 200 response of POST generate carries a learningPath
\* whose phases is a non-empty sequence, whatever the model and the content
\* source returned.
C15_PhasesNonEmpty ==
  (pc = "done" /\ req.route = "generate" /\ resp.status = 200 /\ resp.via = "res.json") =>
    /\ resp.learningPath.phasesKind \in {"list", "phases:list"}
    /\ resp.learningPath.phases # <<>>

\* every result of the request: the rows performDuckDuckGoSearch returned
\* and the rows of every list built from them
EveryResult ==
  UNION { {list[i] : i \in 1..Len(list)} :
          list \in {cat[c].searchResults : c \in Categories} \cup
                   {cat[c].value : c \in Categories} \cup ListsOf(sr) \cup
                   ListsOf(resp.results) }

\* C16 as stated: r.domain is extractDomain(r.url), is lowercase, and is
\* "unknown" exactly when r.url cannot be parsed as a URL.
C16_DomainUnknownIffUnparsable ==
  \A r \in EveryResult :
    /\ r.domain = extractDomain(r.url)
    /\ r.domain = toLowerCase(r.domain)
    /\ r.domain = <<"u","n","k","n","o","w","n">> <=> Malformed(r.url)

\* C16 amended: r.domain is extractDomain(r.url) and is lowercase; it is
\* "unknown" when r.url cannot be parsed, and the url's lowercased host
\* otherwise (which is itself "unknown" for a url such as http://unknown/rh).
C16_DomainOfUrl ==
  \A r \in EveryResult :
    /\ r.domain = extractDomain(r.url)
    /\ r.domain = toLowerCase(r.domain)
    /\ Malformed(r.url) => r.domain = <<"u","n","k","n","o","w","n">>
    /\ ~Malformed(r.url) => r.domain = UrlHostname(r.url)

\* C16 witness: POST search answered with a row whose url has no scheme, a row
\* whose host is spelled "unknown", and a row whose host was typed in upper
\* case.
C16_Witness ==
  /\ pc = "done" /\ req.route = "search" /\ resp.status = 200
  /\ \E i \in 1..Len(resp.results.all) :
       Malformed(resp.results.all[i].url) /\ resp.results.all[i].domain = <<"u","n","k","n","o","w","n">>
  /\ \E i \in 1..Len(resp.results.all) :
       ~Malformed(resp.results.all[i].url) /\ resp.results.all[i].domain = <<"u","n","k","n","o","w","n">>
  /\ \E r \in EveryResult :
       UrlHost(UrlHostPort(UrlAuthority(UrlAfterScheme(UrlRest(r.url)), TRUE)), TRUE) # r.domain /\
       r.domain = <<"d","o","c","s",".","r","e","d","h","a","t",".","c","o","m">>

\* the url is on the generic video-hosting domain
OnVideoHost(url) == includes(UrlHostname(url), <<"y","o","u","t","u","b","e",".","c","o","m">>)

\* the url's host is an allowlisted domain or lies under one
HostOnAllowlist(url) ==
  \E d \in redhatDomains :
    UrlHostname(url) = d \/ endsWith(UrlHostname(url), <<".">> \o d)

ContentHasKeyword(title, url, description) ==
  \E k \in redhatKeywords :
    includes(toLowerCase(title \o <<" ">> \o url \o <<" ">> \o description), k)

\* the brand name or a flagship product name is in the title or description
NamesBrand(title, description) ==
  \E w \in { <<"r","e","d"," ","h","a","t">>, <<"o","p","e","n","s","h","i","f","t">>, <<"a","n","s","i","b","l","e">> } :
    includes(toLowerCase(title), w) \/ includes(toLowerCase(description), w)

\* C17 as stated: for a url off the video-hosting domain isRedHatRelated is
\* true iff the lowercased title+url+description contains a keyword or the
\* url's host is on the allowlist; for a url on the video-hosting domain it is
\* true only if, additionally, the brand name or a flagship product name
\* appears in the title or the description.
C17_RelatedRule ==
  fPc = "isRedHatRelated" =>
    IF OnVideoHost(fIn.url)
      THEN fOut.value =>
             /\ ContentHasKeyword(fIn.title, fIn.url, fIn.description) \/
                  HostOnAllowlist(fIn.url)
             /\ NamesBrand(fIn.title, fIn.description)
      ELSE fOut.value <=>
             (ContentHasKeyword(fIn.title, fIn.url, fIn.description) \/
              HostOnAllowlist(fIn.url))

\* the prompts sent to the model
PromptsSent ==
  {events[i].text : i \in {j \in 1..Len(events) : events[j].ev = "prompt"}}

\* the lines of a prompt between a heading and the next heading or the
\* closing instructions
LinesUnder(lines, heading) ==
  LET at == {i \in 1..Len(lines) : lines[i].label = "heading" /\ lines[i].text = heading}
      stops == {i \in 1..Len(lines) :
                  /\ lines[i].label \in {"heading", "instructions"}
                  /\ at # {} /\ i > SetMin(at)}
  IN  IF at = {} THEN <<>> ELSE SubSeq(lines, SetMin(at) + 1, SetMin(stops) - 1)

Labelled(lines, label) == SelectSeq(lines, LAMBDA l : l.label = label)

\* under the heading the prompt lists the resources of the list, in order,
\* each with its title, url and description
Enumerates(lines, heading, list) ==
  /\ Len(Labelled(LinesUnder(lines, heading), "item")) = Len(list)
  /\ Len(Labelled(LinesUnder(lines, heading), "URL")) = Len(list)
  /\ Len(Labelled(LinesUnder(lines, heading), "Description")) = Len(list)
  /\ \A i \in 1..Len(list) :
       /\ Labelled(LinesUnder(lines, heading), "item")[i].text = list[i].title
       /\ Labelled(LinesUnder(lines, heading), "URL")[i].text = list[i].url
       /\ Labelled(LinesUnder(lines, heading), "Description")[i].text = list[i].description

\* C18 as stated: the prompt sent by POST generate enumerates every resource
\* of the documentation, training and videos lists of searchAllSources, with
\* title, url and description, under its category; no category that has a
\* result is left out.
C18_PromptEnumeratesEveryCategory ==
  req.route = "generate" =>
    \A prompt \in PromptsSent :
      /\ Enumerates(prompt, <<"R","E","D"," ","H","A","T"," ","D","O","C","U","M","E","N","T","A","T","I","O","N",":">>, sr.documentation)
      /\ Enumerates(prompt, <<"R","E","D"," ","H","A","T"," ","T","R","A","I","N","I","N","G"," ","C","O","U","R","S","E","S",":">>, sr.training)
      /\ Enumerates(prompt, <<"R","E","D"," ","H","A","T"," ","T","V"," ","V","I","D","E","O","S",":">>, sr.videos)

\* the learning path each reply of the model parses to
PathOf == [text \in ConcTexts |-> parseLearningPathResponse(text)]

QueriesIn(list) == { list[k].searchQuery : k \in 1..Len(list) }

InFlight(i) ==
  cPc[i] \in {"route_health", "searching", "glp_health", "glp_generate", "glp_done"}

Answered(i) == cPc[i] = "done" /\ cResp[i].status = 200

\* the four fields of the profile that the response's metadata repeats
ProfileShown(profile) ==
  [interests |-> profile.interests, experience |-> profile.experience,
   timeCommitment |-> profile.timeCommitment,
   preferredLearningStyle |-> profile.preferredLearningStyle]

\* the lengths of the lists of a searchResults object, as contentSources
\* gives them
CountsOf(results) ==
  [totalResources |-> Len(results.all), documentation |-> Len(results.documentation),
   training |-> Len(results.training), videos |-> Len(results.videos)]

\* what handler i holds and sends is its own request's
OwnData(i) ==
  /\ (InFlight(i) \/ Answered(i)) =>
       /\ cSent[i] = ConcProfiles[i]
       /\ cLocals[i].userProfile = OwnProfile[i]
       /\ cPc[i] # "route_health" => cLocals[i].extractedTopics = OwnTopics[i]
       /\ \A c \in Categories :
            QueriesIn(cLocals[i].cat[c].searchResults) \subseteq OwnQueries[i]
       /\ \A list \in ListsOf(cLocals[i].searchResults) :
            QueriesIn(list) \subseteq OwnQueries[i]
       /\ cPc[i] = "glp_generate" =>
            cLocals[i].prompt = buildUserPrompt(OwnProfile[i], cLocals[i].searchResults)
  /\ Answered(i) =>
       /\ cSent[i] = ConcProfiles[i]
       /\ cResp[i].keys = {"learningPath", "metadata"}
       /\ cResp[i].metadata.userProfile = ProfileShown(OwnProfile[i])
       /\ cResp[i].metadata.extractedTopics = OwnTopics[i]
       /\ cResp[i].metadata.contentSources = CountsOf(cLocals[i].searchResults)
       /\ cReplied[i] \in ConcTexts
       /\ cResp[i].learningPath = PathOf[cReplied[i]]

\* a continuation of one handler leaves the other handlers' bindings and
\* responses alone, and no continuation writes a field of the instances
IsolatedStep ==
  /\ \A j \in Handlers :
       j # cActor' => cLocals'[j] = cLocals[j] /\ cResp'[j] = cResp[j]
  /\ cInstances' = cInstances

\* C19: with two requests handled at once on the module-level service
\* instances, in every interleaving at the awaits, each response holds only
\* its own request's data (the profile fields, the extracted topics, the
\* counts of its own results and the learning path are that request's; the
\* payload of POST generate carries no result row, and every result the
\* handler holds and puts into its prompt has a searchQuery built from that
\* request's topics), and no request writes state that another request reads.
C19_RequestsIsolated ==
  [](\A i \in Handlers : OwnData(i)) /\ [][IsolatedStep]_vars

\* C19 witness: handler 2 has just answered 200, its metadata counting the
\* results of its own searches, while handler 1, which holds results of its
\* own, waits for the model's reply.
C19_Witness ==
  /\ cPc[2] = "done" /\ cActor = 2
  /\ cResp[2].status = 200 /\ cResp[2].metadata.contentSources.totalResources > 0
  /\ cPc[1] = "glp_generate"
  /\ cLocals[1].searchResults.all # <<>>
  /\ cLocals[1].extractedTopics # cLocals[2].extractedTopics

\* where in the handler's history a step stands
Positions(ev, by) ==
  { i \in 1..Len(events) : events[i].ev = ev /\ events[i].by = by }

\* the steps of the core of POST generate, in the order of the control flow
CoreSteps ==
  << <<"extractTopics", "route">>, <<"searchStart", "searchAllSources">>,
     <<"aggregate", "searchAllSources">>, <<"prompt", "generateLearningPath">>,
     <<"generate", "generateLearningPath">>, <<"response", "route">> >>

StepAt(n) == Positions(CoreSteps[n][1], CoreSteps[n][2])

\* the generate call has been issued
GenerateIssued == Positions("prompt", "generateLearningPath") # {}

\* each step happens at most once, in the order of the control flow, and not
\* without the steps it follows (a response may follow a failed health check,
\* hence without a generate call)
CoreOrder ==
  /\ \A n \in 1..Len(CoreSteps) : Cardinality(StepAt(n)) <= 1
  /\ \A a \in 1..Len(CoreSteps) : \A b \in 1..Len(CoreSteps) :
       a < b => \A i \in StepAt(a) : \A j \in StepAt(b) : i < j
  /\ \A n \in {2, 3, 4, 5} : StepAt(n) # {} => StepAt(n - 1) # {}
  /\ StepAt(6) # {} => StepAt(3) # {}
  /\ StepAt(3) # {} =>
       /\ \A c \in Categories : cat[c].status = "fulfilled"
       /\ "all" \in sr.keys

\* C21: in every POST generate that reaches the core the steps come in the
\* order topic extraction, start of the three searches, settlement of all
\* three, aggregation into `all`, the generate call, the response; the
\* generate call is never issued before every category search has settled,
\* and no search fetch is issued after it.
C21_CoreOrder ==
  /\ [](req.route = "generate" =>
          /\ CoreOrder
          /\ GenerateIssued => \A c \in Categories : cat[c].status = "fulfilled")
  /\ [][(req.route = "generate" /\ GenerateIssued) => cat' = cat]_vars

\* C21 witness: a POST generate answered 200 after all six steps, its
\* training search having issued two fetches.
C21_Witness ==
  /\ req.route = "generate" /\ pc = "done" /\ resp.status = 200
  /\ \A n \in 1..Len(CoreSteps) : StepAt(n) # {}
  /\ Cardinality(cat["training"].issued) >= 2
  /\ cat["documentation"].issued # {}

\* the part of a reply that is handed to the JSON parser: the span from the
\* first '{' to the last '}', or the whole text when there is no such span
ParsedSpan(text) ==
  LET s == pieces(text)
      opening(i) == s[i] \in {"{", "{phase}"}
      closing(j) == s[j] \in {"}", "{phase}"}
  IN  IF \E i, j \in 1..Len(s) : i <= j /\ opening(i) /\ closing(j)
        THEN SubSeq(s, CHOOSE i \in 1..Len(s) :
                         opening(i) /\ \A k \in 1..(i - 1) : ~opening(k),
                       CHOOSE j \in 1..Len(s) :
                         closing(j) /\ \A k \in (j + 1)..Len(s) : ~closing(k))
        ELSE s

IsReplyText(text) == text # NoValue /\ text # Undefined

\* the member written at a place of a span: a phases list is named by its
\* opening, a phase object on its own has a title
MemberAt(s, i) ==
  IF s[i] = "phases:[" THEN "phases:list"
  ELSE IF s = <<"{phase}">> THEN "title:text"
  ELSE s[i]

HasKey(s, Members) == \E i \in 1..Len(s) : MemberAt(s, i) \in Members

\* the value of the last member of a key is neither '' nor null
HasUsableValue(s, Members) ==
  /\ HasKey(s, Members)
  /\ \A i \in 1..Len(s) :
       (MemberAt(s, i) \in Members
          /\ \A k \in (i + 1)..Len(s) : MemberAt(s, k) \notin Members) =>
         MemberAt(s, i) \notin {"title:empty", "phases:null"}

\* C22 as stated: parseLearningPathResponse never throws, and returns the
\* model's own object iff the greedy '{'..'}' span of the text (or the whole
\* text) parses as JSON and the parsed value has both a title and a phases
\* key; in every other case it returns the fallback.
C22_ModelObjectIffKeys ==
  (pc = "glp_done" /\ ~GlpFailure) =>
    /\ glp.kind = "return"
    /\ \A text \in GlpReplies :
         IF /\ IsReplyText(text)
            /\ IsJsonObject(ParsedSpan(text))
            /\ HasKey(ParsedSpan(text), TitleMembers)
            /\ HasKey(ParsedSpan(text), PhasesMembers)
           THEN glp.value.origin = "model" /\ ~IsFallback(glp.value)
           ELSE glp.value.origin = "fallback" /\ IsFallback(glp.value)

\* C22 amended: parseLearningPathResponse never throws, and returns the
\* model's own object iff the span parses as JSON and the parsed value's
\* title and phases are both truthy: an object whose title is '' or whose
\* phases is null gets the fallback although it has both keys.
C22_ModelObjectIffTruthy ==
  (pc = "glp_done" /\ ~GlpFailure) =>
    /\ glp.kind = "return"
    /\ \A text \in GlpReplies :
         IF /\ IsReplyText(text)
            /\ IsJsonObject(ParsedSpan(text))
            /\ HasUsableValue(ParsedSpan(text), TitleMembers)
            /\ HasUsableValue(ParsedSpan(text), PhasesMembers)
           THEN glp.value.origin = "model" /\ ~IsFallback(glp.value)
           ELSE glp.value.origin = "fallback" /\ IsFallback(glp.value)

\* C22 witness: the reply is an object with both keys whose title is '', and
\* the fallback was returned.
C22_Witness ==
  /\ pc = "glp_done" /\ glp.kind = "return"
  /\ IsFallback(glp.value)
  /\ \E text \in GlpReplies :
       /\ IsReplyText(text)
       /\ IsJsonObject(ParsedSpan(text))
       /\ HasKey(ParsedSpan(text), PhasesMembers)
       /\ \E i \in 1..Len(text) : text[i] = "title:empty"
       /\ ~HasUsableValue(ParsedSpan(text), TitleMembers)
       /\ HasUsableValue(ParsedSpan(text), PhasesMembers)

\* the key as the specification words it: the first 50 characters of the
\* title lowercased, reduced to a-z, 0-9 and whitespace, whitespace
\* collapsed, trimmed; and the domain of the url
TitleKey(title) ==
  LET kept(c) == c \in (LowerSet \cup DigitSet \cup WhitespaceSet)
      text == trim(collapseWhitespace(SelectSeq(toLowerCase(title), kept)))
  IN  SubSeq(text, 1, MinOf(50, Len(text)))

ResultKey(r) == <<TitleKey(r.title), extractDomain(r.url)>>

\* how often a value occurs in a list
Count(list, x) == Cardinality({i \in 1..Len(list) : list[i] = x})

SameElements(a, b) ==
  /\ Len(a) = Len(b)
  /\ \A i \in 1..Len(a) : Count(a, a[i]) = Count(b, a[i])

\* the rows of the list that come first among the eligible rows of their key
FirstOfKey(list, Eligible(_)) ==
  SelectSeq([i \in 1..Len(list) |-> [at |-> i, row |-> list[i]]],
            LAMBDA e : /\ Eligible(e.row)
                       /\ \A j \in 1..(e.at - 1) :
                            Eligible(list[j]) => ResultKey(list[j]) # ResultKey(e.row))

RowsOf(entries) == [i \in 1..Len(entries) |-> entries[i].row]

AnyRow(r) == TRUE

HasTitleAndUrl(r) == r.title # <<>> /\ r.url # <<>>

\* C23 as stated: deduplicateResults keeps exactly the first result for each
\* key (first 50 characters of the normalized title, and the domain of the
\* url): two results are both kept iff their keys differ.
C23_FirstPerKey ==
  fPc = "deduplicateResults" =>
    SameElements(fOut.value, RowsOf(FirstOfKey(fIn.results, AnyRow)))

\* C23 amended: results with an empty title or url are dropped, and of the
\* others exactly the first for each key is kept.
C23_FirstPerKeyAmongTitled ==
  fPc = "deduplicateResults" =>
    SameElements(fOut.value, RowsOf(FirstOfKey(fIn.results, HasTitleAndUrl)))

\* C23 witness: of two titles on one domain that differ only after the 50th
\* normalized character the second was merged, and the same title on another
\* domain was kept.
C23_Witness ==
  /\ fPc = "deduplicateResults"
  /\ fIn.results = <<KeyRows.long, KeyRows.longTail, KeyRows.longMirror>>
  /\ Len(fOut.value) = 2
  /\ Count(fOut.value, KeyRows.long) = 1
  /\ Count(fOut.value, KeyRows.longMirror) = 1
  /\ KeyRows.long.title # KeyRows.longTail.title

\* one of the words occurs in the text, whatever its case
Mentions(text, words) == \E w \in words : includes(toLowerCase(text), w)

\* the rules of the classifier, as the specification lists them
VideoHostRule(url) == Mentions(url, { <<"y","o","u","t","u","b","e",".","c","o","m">>, <<"y","o","u","t","u",".","b","e">>, <<"t","v",".","r","e","d","h","a","t",".","c","o","m">> })

DocRule(url, title) ==
  \/ Mentions(url, { <<"d","o","c","s",".">>, <<"d","o","c","u","m","e","n","t","a","t","i","o","n">>, <<"a","c","c","e","s","s",".","r","e","d","h","a","t",".","c","o","m">> })
  \/ Mentions(title, { <<"d","o","c","u","m","e","n","t","a","t","i","o","n">>, <<"g","u","i","d","e">> })

TrainingRule(url, title) ==
  \/ Mentions(url, { <<"t","r","a","i","n","i","n","g">>, <<"c","e","r","t","i","f","i","c","a","t","i","o","n">>, <<"c","o","u","r","s","e">> })
  \/ Mentions(title, { <<"t","r","a","i","n","i","n","g">>, <<"c","e","r","t","i","f","i","c","a","t","i","o","n">>, <<"c","o","u","r","s","e">> })

PdfRule(url) == Mentions(url, { <<".","p","d","f">> })

DemoTitleRule(title) == Mentions(title, { <<"v","i","d","e","o">>, <<"t","u","t","o","r","i","a","l">>, <<"d","e","m","o">> })

\* the label of the first rule that matches
FirstRule(url, title) ==
  IF VideoHostRule(url) THEN "video"
  ELSE IF DocRule(url, title) THEN "documentation"
  ELSE IF TrainingRule(url, title) THEN "training"
  ELSE IF PdfRule(url) THEN "pdf"
  ELSE IF DemoTitleRule(title) THEN "video"
  ELSE "article"

\* the call classifies: it has a url, and a title or none
Classifies == fPc = "determineContentType" /\ IsString(fIn.url) /\ fIn.url # <<>>
              /\ fIn.title # NoValue

GivenTitle == IF fIn.title = Undefined THEN <<>> ELSE fIn.title

\* C24: determineContentType applies its rules in the listed order and the
\* first match wins: a video-hosting url is video whatever the title says, a
\* doc-ish url or title is documentation even if it matches training or
\* .pdf, training beats .pdf, .pdf beats a tutorial or demo title, and the
\* result is article only when no rule matches.
C24_FirstMatchWins ==
  Classifies =>
    /\ fOut = Return(FirstRule(fIn.url, GivenTitle))
    /\ VideoHostRule(fIn.url) => fOut.value = "video"
    /\ (~VideoHostRule(fIn.url) /\ DocRule(fIn.url, GivenTitle)) =>
         fOut.value = "documentation"
    /\ fOut.value = "article" =>
         ~(\/ VideoHostRule(fIn.url) \/ DocRule(fIn.url, GivenTitle)
           \/ TrainingRule(fIn.url, GivenTitle) \/ PdfRule(fIn.url)
           \/ DemoTitleRule(GivenTitle))

\* C24 witness: a .pdf url with a course title was classified training.
C24_Witness ==
  /\ Classifies
  /\ PdfRule(fIn.url) /\ TrainingRule(fIn.url, GivenTitle)
  /\ ~DocRule(fIn.url, GivenTitle) /\ ~VideoHostRule(fIn.url)
  /\ fOut = Return("training")

\* the rows a selector's blocks contribute
RowsUnder(s) == selectorResults(fIn.page[s], fIn.query, fIn.source)

\* the first selector with the property, 0 when there is none
FirstSelector(Has(_)) ==
  IF \E s \in 1..Len(resultSelectors) : Has(s)
    THEN CHOOSE s \in 1..Len(resultSelectors) : Has(s) /\ \A r \in 1..(s - 1) : ~Has(r)
    ELSE 0

MatchesBlocks(s) == fIn.page[s] # <<>>

YieldsRows(s) == RowsUnder(s) # <<>>

\* C25 as stated: the selectors are tried in order and the loop stops at the
\* first one that matches a block: the results are that selector's, even if
\* the relevance filter retains none of its blocks.
C25_StopsAtFirstMatch ==
  fPc = "pageResults" =>
    fOut.value = IF FirstSelector(MatchesBlocks) = 0 THEN <<>>
                 ELSE RowsUnder(FirstSelector(MatchesBlocks))

\* C25 amended: the loop stops at the first selector of whose blocks at least
\* one is retained; a selector that matches blocks none of which is retained
\* is passed over and the next one is tried.
C25_StopsAtFirstRetained ==
  fPc = "pageResults" =>
    fOut.value = IF FirstSelector(YieldsRows) = 0 THEN <<>>
                 ELSE RowsUnder(FirstSelector(YieldsRows))

\* C25 witness: the first selector matched a block that was not retained,
\* the results are the second selector's, and the third selector's rows are
\* not among them.
C25_Witness ==
  /\ fPc = "pageResults"
  /\ MatchesBlocks(1) /\ ~YieldsRows(1)
  /\ YieldsRows(2) /\ YieldsRows(3)
  /\ RowsUnder(2) # RowsUnder(3)
  /\ fOut.value = RowsUnder(2)

\* what the health check should say of an answer of ollama.list()
ListedExactly(list) == list.ok /\ OllamaModel \in list.models

HealthCause(list) ==
  IF list.ok THEN "Model llama3.2:latest not found" ELSE list.error

\* checkOllamaHealth on every answer: a record, healthy or with the cause
HealthReports ==
  \A list \in ListOutcomes :
    LET h == checkOllamaHealth(list)
    IN  /\ h.healthy <=> ListedExactly(list)
        /\ ~h.healthy => h.error = HealthCause(list)

HealthCauses == {HealthCause(list) : list \in {l \in ListOutcomes : ~ListedExactly(l)}}

\* C26: generateLearningPath asks for the model list before anything else;
\* when the list call fails or the configured name is not exactly among the
\* listed names, no prompt is built and ollama.generate is never called, and
\* the call throws an error whose message names the cause; checkOllamaHealth
\* is healthy exactly when the list call succeeded and the name is listed.
C26_HealthCheckFailsFast ==
  /\ HealthReports
  /\ events # <<>> => events[1].ev = "list" /\ events[1].by = "generateLearningPath"
  /\ events = <<>> => glp = glpPending
  /\ (events # <<>> /\ ~events[1].ok) =>
        /\ Len(events) = 1
        /\ events[1].detail \in HealthCauses
        /\ glp.kind = "throw"
        /\ glp.error.message =
             <<"Failed to generate learning path", "Ollama service unavailable",
               events[1].detail>>
  /\ \A i \in 1..Len(events) :
        events[i].ev \in {"prompt", "generate"} => events[1].ok /\ events[1].detail = "none"

\* both causes in turn: the list call failed, and a list without the exact name
C26_Witness ==
  /\ pc = "glp_done"
  /\ Len(events) = 1
  /\ events[1].detail = "Model llama3.2:latest not found"
  /\ glp.kind = "throw"
  /\ \E list \in ListOutcomes : list.ok /\ list.models = {"llama3.2"} /\ ~checkOllamaHealth(list).healthy

NoDuplicates(seq) == \A i, j \in 1..Len(seq) : seq[i] = seq[j] => i = j

\* where pat first occurs in text (0 when it does not)
FirstAt(text, pat) ==
  LET at == {i \in 1..(Len(text) - Len(pat) + 1) :
               text[i] = pat[1] /\ SubSeq(text, i, i + Len(pat) - 1) = pat}
  IN  IF at = {} THEN 0 ELSE SetMin(at)

\* the bucket of that name, and where its first keyword match lies in text
BucketNamed(name) == CHOOSE n \in 1..Len(topicKeywords) : topicKeywords[n].topic = name

BucketAt(name, text) ==
  SetMin({FirstAt(text, topicKeywords[BucketNamed(name)].keywords[k]) :
            k \in {k \in 1..Len(topicKeywords[BucketNamed(name)].keywords) :
                     includes(text, topicKeywords[BucketNamed(name)].keywords[k])}})

BucketCase == \E n \in 1..Len(topicKeywords) : Implied(topicKeywords[n], TopicText)

\* the first n distinct elements of seq
FirstDistinct(seq, n) ==
  SubSeq(uniqueInOrder(seq), 1, MinOf(n, Len(uniqueInOrder(seq))))

\* seq lists exactly the elements of the first n places of from, each once,
\* in the order in which they first stand there
DistinctOfFirst(seq, from, n) ==
  LET head == SubSeq(from, 1, MinOf(n, Len(from)))
      first(x) == SetMin({k \in 1..Len(head) : head[k] = x})
  IN  /\ {seq[i] : i \in 1..Len(seq)} = {head[k] : k \in 1..Len(head)}
      /\ \A i, j \in 1..Len(seq) : i < j => first(seq[i]) < first(seq[j])

\* C27 as stated: the sequence extractTopics returns has no duplicates and
\* lists the topics in the order of their first match in the input; in the
\* fallback case it holds the first three distinct qualifying tokens, also
\* when a qualifying token is repeated among the first three.
C27_FirstMatchOrder ==
  fPc = "extractTopics" =>
    /\ NoDuplicates(fOut.value)
    /\ IF BucketCase
         THEN \A i, j \in 1..Len(fOut.value) :
                i < j => BucketAt(fOut.value[i], toLowerCase(TopicText))
                           <= BucketAt(fOut.value[j], toLowerCase(TopicText))
         ELSE fOut.value = FirstDistinct(FallbackWords(TopicText), 3)

\* C27 amended: the sequence has no duplicates; matched buckets are listed in
\* the order of the keyword table; in the fallback case it holds the distinct
\* tokens among the first three qualifying tokens, in order of first
\* occurrence, so fewer than three when one of the three is a repeat.
C27_TableOrderFirstThree ==
  fPc = "extractTopics" =>
    /\ NoDuplicates(fOut.value)
    /\ IF BucketCase
         THEN \A i, j \in 1..Len(fOut.value) :
                i < j => BucketNamed(fOut.value[i]) < BucketNamed(fOut.value[j])
         ELSE DistinctOfFirst(fOut.value, FallbackWords(TopicText), 3)

\* C27 witness: a token repeated among the first three, a fourth distinct
\* qualifying token left out.
C27_Witness ==
  /\ fPc = "extractTopics"
  /\ fIn.interests = << <<"p","u","r","p","l","e">>, <<"p","u","r","p","l","e">>, <<"E","l","e","p","h","a","n","t","s">> >>
  /\ fIn.goals = << <<"p","u","r","p","l","e"," ","e","l","e","p","h","a","n","t","s"," ","d","a","n","c","i","n","g">> >>
  /\ fOut.value = << <<"p","u","r","p","l","e">>, <<"e","l","e","p","h","a","n","t","s">> >>

\* the statuses a route's own res.json calls send
JsonStatuses(route) ==
  IF route = "generate" THEN {200, 400, 500, 503} ELSE {200, 400}

\* the request has its outcome: a JSON response or a hand-off with next(error)
Outcome == resp.via \in {"res.json", "next"}

\* a search that has settled or has a query to send
Proceeds(c) ==
  \/ cat[c].status = "fulfilled"
  \/ Running(c) /\ cat[c].status = "running" /\ FetchOutcomes # {}

\* the handler, or the call it awaits, has a step to take
HasStep ==
  CASE pc = "searching" -> \A c \in Categories : Proceeds(c)
    [] pc = "seq_documentation" -> Proceeds("documentation")
    [] pc = "seq_training" -> Proceeds("training")
    [] pc = "glp_done" -> req.route = "generate"
    [] pc = "route_health" -> ListOutcomes # {}
    [] pc = "glp_health" -> ListOutcomes # {}
    [] pc = "glp_generate" -> RouteTexts # {}
    [] OTHER -> FALSE

OneOutcome ==
  /\ resp.via \in {"none", "res.json", "next"}
  /\ resp.via = "none" => resp = NoResponse
  /\ resp.via = "res.json" => resp.status \in JsonStatuses(req.route) /\ resp.error.name = "none"
  /\ resp.via = "next" => resp.error.name # "none" /\ resp.error.message # <<>>
  /\ pc = "done" <=> Outcome
  /\ pc # "done" => HasStep

\* C28: every POST /generate and POST /search request ends in exactly one
\* outcome: one JSON response (200, or 400/500/503) or one next(error); once
\* the outcome is there, nothing more is sent or handed on, and while it is
\* not there the handler has a step to take.
C28_ExactlyOneOutcome ==
  [](req.route \in {"generate", "search"} => OneOutcome) /\
  [][Outcome => (resp' = resp /\ pc' = pc)]_vars

\* C28 witness: a POST /generate whose generateLearningPath threw, handed to
\* the error middleware after both searches and the model call
C28_Witness ==
  /\ pc = "done"
  /\ req.route = "generate"
  /\ resp.via = "next"
  /\ glp.kind = "throw"
  /\ \E i \in 1..Len(events) : events[i].ev = "generate" /\ ~events[i].ok

\* the rows the first n blocks of a selector's matches can give
RowsOfFirst(blocks, n, query, source) ==
  UNION { {eachBlock(blocks[k], query, source)[i] :
             i \in 1..Len(eachBlock(blocks[k], query, source))} :
          k \in 1..MinOf(n, Len(blocks)) }

\* the queries a category search sends for one topic
QueriesPerTopic(c) == IF c = "training" THEN 2 ELSE 1

\* C29: a list returned by performDuckDuckGoSearch has at most maxResults
\* results, all from the first maxResults blocks of one selector, each with
\* the call's query as searchQuery and the call's source; a category search
\* over n topics returns at most n * q * maxResults results, q being 1 for
\* documentation and videos and 2 for training.
C29_AtMostMaxResults ==
  /\ fPc = "pageResults" =>
        /\ Len(fOut.value) <= maxResults
        /\ \E s \in 1..Len(resultSelectors) :
             \A i \in 1..Len(fOut.value) :
               fOut.value[i] \in RowsOfFirst(fIn.page[s], maxResults, fIn.query, fIn.source)
        /\ \A i \in 1..Len(fOut.value) :
             fOut.value[i].searchQuery = fIn.query /\ fOut.value[i].source = fIn.source
  /\ (fPc = "categorySearch" /\ fIn.topics.t = "array") =>
        /\ fOut.kind = "return"
        /\ Len(fOut.value) <= Len(fIn.topics.a) * QueriesPerTopic(fIn.c) * maxResults
        /\ \A i \in 1..Len(fOut.value) : fOut.value[i].source = sourceLabel(fIn.c)

\* C29 witness: a selector that matches more than maxResults related blocks;
\* exactly maxResults results come back
C29_Witness ==
  /\ fPc = "pageResults"
  /\ Len(fIn.page[1]) > maxResults
  /\ \A k \in 1..Len(fIn.page[1]) : eachBlock(fIn.page[1][k], fIn.query, fIn.source) # <<>>
  /\ Len(fOut.value) = maxResults

\* the call resolved to a list
ResolvedList(out) == out.kind = "return" /\ DOMAIN out.value = 1..Len(out.value)

\* the call resolved to an object with the four lists
ResolvedFourLists(out) ==
  /\ out.kind = "return"
  /\ out.value.keys = {"documentation", "training", "videos", "all"}
  /\ \A list \in {out.value.documentation, out.value.training, out.value.videos,
                   out.value.all} : DOMAIN list = 1..Len(list)

\* C30 as stated: for every topics value and every pattern of failing
\* fetches each category search resolves to a list, and searchAllSources
\* resolves with the four lists and never throws.
C30_NeverRejects ==
  /\ fPc = "categorySearch" => ResolvedList(fOut)
  /\ fPc = "searchAllSources" => ResolvedFourLists(fOut)

\* C30 amended: each category search resolves to a list for every topics
\* value and every pattern of failing fetches; searchAllSources resolves
\* with the four lists, each category's list being that search's own, when
\* topics is an array, and rejects with a TypeError when it is not.
C30_ResolvesOnArrays ==
  /\ fPc = "categorySearch" =>
        /\ ResolvedList(fOut)
        /\ fIn.topics.t # "array" => fOut.value = <<>>
  /\ fPc = "searchAllSources" =>
        IF fIn.topics.t = "array"
          THEN /\ ResolvedFourLists(fOut)
               /\ \A c \in Categories :
                    cat[c].status = "fulfilled" /\ fOut.value[c] = cat[c].value
          ELSE fOut = Throw("TypeError")

\* C30 witness: every documentation fetch fails while the training fetches
\* bring pages; documentation is empty, training is not, the call resolves
C30_Witness ==
  /\ fPc = "searchAllSources"
  /\ fIn.topics = Arr(<< <<"r","h","e","l">>, <<"a","n","s","i","b","l","e">> >>)
  /\ cat["documentation"].issued # {}
  /\ cat["documentation"].failed = cat["documentation"].issued
  /\ fOut.kind = "return"
  /\ fOut.value.documentation = <<>>
  /\ fOut.value.training # <<>>
  /\ fOut.value.all = fOut.value.training \o fOut.value.videos

\* the README's "Learning Path Generation Requirements"
MeetsReadme(body) ==
  /\ StringList(body.interests, 1, 10, 0, 200)
  /\ StringList(body.goals, 1, 5, 0, 300)
  /\ body.experience.t = "string"
  /\ trim(body.experience.s) \in { <<"b","e","g","i","n","n","e","r">>, <<"i","n","t","e","r","m","e","d","i","a","t","e">>, <<"a","d","v","a","n","c","e","d">>, <<"e","x","p","e","r","t">> }
  /\ body.timeCommitment.t = "string"
  /\ trim(body.timeCommitment.s) \in
       { <<"1","-","2"," ","h","o","u","r","s","/","w","e","e","k">>, <<"3","-","5"," ","h","o","u","r","s","/","w","e","e","k">>, <<"6","-","1","0"," ","h","o","u","r","s","/","w","e","e","k">>, <<"1","0","+"," ","h","o","u","r","s","/","w","e","e","k">>,
         <<"f","u","l","l","-","t","i","m","e">> }
  /\ body.preferredLearningStyle.t = "string"
  /\ trim(body.preferredLearningStyle.s) \in
       { <<"v","i","s","u","a","l">>, <<"h","a","n","d","s","-","o","n">>, <<"r","e","a","d","i","n","g">>, <<"m","i","x","e","d">> }

\* C20 as stated: POST generate accepts a body only if it meets the README's
\* requirements; any other body is rejected with 400.
C20_ReadmeRequirements ==
  (req.route = "generate" /\ ~MeetsReadme(req.body)) => resp.status = 400

\* the items of certificationGoals, when given, are strings of 1-100
\* characters
CertificationItemsOk(body) ==
  body.certificationGoals.t = "absent" \/ StringList(body.certificationGoals, 0, 5, 1, 100)

\* C20 amended: POST generate rejects a body with 400 exactly when it fails
\* the schema of validation.js (interests 1-20 strings of 1-200 characters,
\* goals 1-10 strings of 1-300, experience, timeCommitment and
\* preferredLearningStyle any text of 1-100, the optional fields within
\* their limits); the README's narrower counts and value lists are not
\* enforced.
C20_RejectedIffSchemaFails ==
  req.route = "generate" =>
    (resp.status = 400 <=>
       ~(ProfileMeetsSchema(req.body) /\ CertificationItemsOk(req.body)))

\* C20 witness: a profile with 20 interests, twice the README's limit, was
\* answered 200.
C20_Witness ==
  /\ req.route = "generate"
  /\ pc = "done"
  /\ req.body.interests.t = "array" /\ Len(req.body.interests.a) = 20
  /\ ~MeetsReadme(req.body)
  /\ resp.status = 200 /\ resp.via = "res.json"

\* where a surviving result's key was first seen in the input of
\* deduplicateResults
FirstSeen(r) ==
  SetMin({i \in 1..Len(dIn) :
            dIn[i].title # <<>> /\ dIn[i].url # <<>> /\ dedupKey(dIn[i]) = dedupKey(r)})

\* FirstSeen of every survivor, in the order of the output
FirstSeenOfOutput ==
  LET keyed(list) == Written([i \in 1..Len(list) |-> dedupKey(list[i])])
      seenAt(keysIn, key) ==
        SetMin({i \in 1..Len(dIn) :
                  dIn[i].title # <<>> /\ dIn[i].url # <<>> /\ keysIn[i] = key})
      seenAll(keysIn, keysOut) ==
        Written([p \in 1..Len(dOut) |-> seenAt(keysIn, keysOut[p])])
  IN  seenAll(keyed(dIn), keyed(dOut))

\* the tier of the final sort as the comparator has it: the domain holds
\* 'redhat.com'
OnRedHatCom(r) == includes(r.domain, <<"r","e","d","h","a","t",".","c","o","m">>)

\* the official domains of the specification: the fixed allowlist the
\* classifier names (docs.ansible.com among them); a host is official when it
\* is one of them or a subdomain of one
OfficialDomains ==
  { <<"r","e","d","h","a","t",".","c","o","m">>, <<"t","v",".","r","e","d","h","a","t",".","c","o","m">>, <<"a","c","c","e","s","s",".","r","e","d","h","a","t",".","c","o","m">>, <<"d","o","c","s",".","r","e","d","h","a","t",".","c","o","m">>,
    <<"d","o","c","s",".","a","n","s","i","b","l","e",".","c","o","m">>, <<"c","o","n","s","o","l","e",".","r","e","d","h","a","t",".","c","o","m">>, <<"c","a","t","a","l","o","g",".","r","e","d","h","a","t",".","c","o","m">>,
    <<"d","e","v","e","l","o","p","e","r","s",".","r","e","d","h","a","t",".","c","o","m">> }

OfficialDomain(r) ==
  \E d \in OfficialDomains : r.domain = d \/ endsWith(r.domain, <<".">> \o d)

TypePriority(type) ==
  IF type = "video" THEN 1
  ELSE IF type = "training" THEN 2
  ELSE IF type = "documentation" THEN 3
  ELSE IF type = "article" THEN 4
  ELSE IF type = "pdf" THEN 5
  ELSE 6

\* equal under the comparator
SameRank(a, b) ==
  OnRedHatCom(a) = OnRedHatCom(b) /\ TypePriority(a.type) = TypePriority(b.type)

\* C8: deduplicateResults is idempotent: applying it to its own output gives
\* that output again, element for element.
C8_DedupIdempotent == dPc = "twice" => dOut2 = dOut

\* C8 witness: an input where a duplicate was dropped and the sort moved a
\* survivor, deduplicated twice.
C8_Witness ==
  /\ dPc = "twice"
  /\ Len(dOut) >= 2
  /\ Len(dOut) < Len(dIn)
  /\ \E p, q \in 1..Len(dOut) : p < q /\ FirstSeen(dOut[q]) < FirstSeen(dOut[p])

\* C9 as stated: survivors appear in the order their keys were first seen in
\* the input.
C9_FirstSeenOrder ==
  dPc = "once" =>
    \A p, q \in 1..Len(dOut) :
      p < q => FirstSeen(dOut[p]) < FirstSeen(dOut[q])

\* C9 amended: first-seen order is preserved among survivors that the final
\* sort ranks equal (same domain tier, same type priority); the sort decides
\* the order of the others.
C9_FirstSeenOrderAmongEqualRank ==
  dPc = "once" =>
    LET seen == FirstSeenOfOutput
    IN  \A p, q \in 1..Len(dOut) :
          (SameRank(dOut[p], dOut[q]) /\ seen[p] < seen[q]) => p < q

\* C9 witness: two survivors of equal rank, and a third of another rank that
\* the sort moved in front of an earlier-seen one.
C9_Witness ==
  /\ dPc = "once"
  /\ \E p, q \in 1..Len(dOut) :
       p < q /\ SameRank(dOut[p], dOut[q]) /\ dOut[p] # dOut[q]
  /\ \E p, q \in 1..Len(dOut) :
       p < q /\ FirstSeen(dOut[q]) < FirstSeen(dOut[p])

\* C10 as stated: in the output every official-domain result precedes every
\* non-official result whatever their types, within a tier the type priority
\* never decreases, and results equal under the comparator keep their
\* first-seen order.
C10_SortOrder ==
  dPc = "once" =>
    LET seen == FirstSeenOfOutput
    IN  \A p, q \in 1..Len(dOut) :
          p < q =>
            /\ ~(~OfficialDomain(dOut[p]) /\ OfficialDomain(dOut[q]))
            /\ OfficialDomain(dOut[p]) = OfficialDomain(dOut[q]) =>
                 TypePriority(dOut[p].type) <= TypePriority(dOut[q].type)
            /\ SameRank(dOut[p], dOut[q]) => seen[p] < seen[q]

====
